---------------------------- MODULE Spec2Model ----------------------------
(* A model of cargo-sane: version-requirement parsing and update         *)
(* classification (core/dependency.rs, analyzer/checker.rs), manifest     *)
(* loading and the dependency check loop (core/manifest.rs,               *)
(* analyzer/checker.rs, cli/commands.rs) and duplicate-version conflict   *)
(* detection (analyzer/conflicts.rs).                                     *)
(*                                                                        *)
(* Text is a sequence of one-character strings; an Option<T> is a         *)
(* sequence of length 0 (None) or 1 (Some).                               *)
EXTENDS Integers, Sequences, FiniteSets, TLC

VARIABLES
    pc,               \* position of the modelled call or command
    current_version,  \* Dependency.current_version
    latest_version,   \* Dependency.latest_version : Option<Version>
    utype,            \* Option<UpdateType>: what update_type() returned
    hasUpdate,        \* Option<bool>: what has_update() returned
    req,              \* the requirement string handed to parse_version_req
    parsed,           \* Option<Option<Version>>: what parse_version_req returned
    toolRun,          \* what `cargo tree --duplicates` will answer
    totalRun,         \* Option: what `cargo tree --prefix=none` answered, once it ran
    detected,         \* Option<Result<ConflictReport>>: what detect_conflicts returned
    cmd,              \* the subcommand main dispatches to
    flags,            \* its flags: dry_run, all, auto, json
    fsManifest,       \* Option<file>: the file at the manifest path
    fsBackup,         \* Option<file>: the file at the backup path
    fsStart,          \* the two files as they were when the command started
    answered,         \* what the prompts and the scan of the sources gave the command
    loadedManifest,   \* Option<Manifest>: what Manifest::find returned
    pending,          \* check_dependencies: the entries its loop has yet to visit
    results,          \* check_dependencies: the entries pushed so far
    checked,          \* Option<Vec<Dependency>>: what check_dependencies returned
    lookups,          \* the lookups sent to the registry and its answers, in order
    effectLog,        \* what the command did to its surroundings, in order
    exitCode,         \* Option<int>: the status the process exited with
    outLines,         \* lines printed to stdout
    errLines,         \* lines printed to stderr
    observed,         \* the distinct versions handed to suggest_version
    suggested,        \* Option<Option<String>>: what suggest_version returned
    original_content, \* DependencyUpdater.original_content: the text held in memory
    lastCall,         \* the last call on the updater: its arguments, what it found, its result
    scanInput,        \* the project handed to the usage analyzer: its files, its declared names
    scanResult,       \* Option: what find_unused_dependencies returned
    healthInput,      \* what the health checker is called on: a version and a range, or dependencies
    affected,         \* Option<bool>: what is_version_affected returned
    healthReport      \* Option<HealthReport>: what check_health returned

vars == <<pc, current_version, latest_version, utype, hasUpdate, req, parsed,
          toolRun, totalRun, detected, cmd, flags, fsManifest, fsBackup, fsStart, answered,
          loadedManifest, pending,
          results, checked, lookups, effectLog, exitCode, outLines, errLines,
          observed, suggested, original_content, lastCall, scanInput, scanResult,
          healthInput, affected, healthReport>>

----------------------------------------------------------------------------
(* Bounds *)

\* version components of generated versions range over 0..MaxNum
MaxNum == 2
\* generated requirements carry at most MaxOps leading operator characters
MaxOps == 2
\* a generated range has at most MaxClauses comma-separated clauses
MaxClauses == 2
\* a crate has at most MaxAdvisories advisories in the database
MaxAdvisories == 1
\* a generated source file has at most MaxStmts statements
MaxStmts == 2
\* a duplicates listing has at most MaxLines lines
MaxLines == 4
\* a manifest declares at most MaxDeps dependencies
MaxDeps == 2
\* a conflict has at most MaxVersions distinct versions
MaxVersions == 3
\* the [dependencies] table of a generated manifest text has at most MaxDecls lines
MaxDecls == 2

----------------------------------------------------------------------------
(* Options and text *)

None == <<>>
Some(x) == <<x>>
IsSome(o) == Len(o) = 1
Unwrap(o) == o[1]

\* the backquote character of the ascii tree charset (the lexer of TLA+ admits
\* no backquote inside a string literal)
Backquote == "BQ"

\* ASCII order of the characters the model uses ('+' < '-' < digits < letters)
AsciiOrder == <<" ", "+", "-", ".", "0", "1", "2", "3", "4", "5", "6", "7", "8", "9",
                "<", "=", ">", "^", Backquote,
                "a", "b", "c", "d", "e", "f", "g", "h", "i", "j", "k", "l", "m",
                "n", "o", "p", "q", "r", "s", "t", "u", "v", "w", "x", "y", "z",
                "|", "~">>
CharRank(c) == CHOOSE i \in 1..Len(AsciiOrder) : AsciiOrder[i] = c

Digits == <<"0", "1", "2", "3", "4", "5", "6", "7", "8", "9">>
IsDigit(c) == \E i \in 1..10 : Digits[i] = c
DigitVal(c) == (CHOOSE i \in 1..10 : Digits[i] = c) - 1
IsLetter(c) == c \in {"a", "b", "c", "d", "e", "f", "g", "h", "i", "j", "k", "l", "m",
                      "n", "o", "p", "q", "r", "s", "t", "u", "v", "w", "x", "y", "z"}
Whitespace == {" "}

\* str::trim_start_matches(set): drop the longest prefix of chars in the set
RECURSIVE TrimStartSet(_, _)
TrimStartSet(s, set) ==
    IF s # <<>> /\ Head(s) \in set THEN TrimStartSet(Tail(s), set) ELSE s

RECURSIVE TrimEndSet(_, _)
TrimEndSet(s, set) ==
    IF s # <<>> /\ s[Len(s)] \in set THEN TrimEndSet(SubSeq(s, 1, Len(s) - 1), set) ELSE s

\* str::trim
Trim(s) == TrimEndSet(TrimStartSet(s, Whitespace), Whitespace)

\* str::trim_start_matches(c: char): drops EVERY leading occurrence of c
TrimStartMatches(s, c) == TrimStartSet(s, {c})

\* str::split(sep).collect(): always at least one (possibly empty) part
RECURSIVE SplitAcc(_, _, _)
SplitAcc(s, sep, cur) ==
    IF s = <<>> THEN <<cur>>
    ELSE IF Head(s) = sep THEN <<cur>> \o SplitAcc(Tail(s), sep, <<>>)
    ELSE SplitAcc(Tail(s), sep, Append(cur, Head(s)))
Split(s, sep) == SplitAcc(s, sep, <<>>)

\* decimal rendering of a natural number (u64 Display)
RECURSIVE NumStr(_)
NumStr(n) == IF n < 10 THEN <<Digits[n + 1]>> ELSE NumStr(n \div 10) \o <<Digits[(n % 10) + 1]>>

\* value of a digit string
RECURSIVE NumVal(_)
NumVal(s) == IF s = <<>> THEN 0 ELSE NumVal(SubSeq(s, 1, Len(s) - 1)) * 10 + DigitVal(s[Len(s)])

----------------------------------------------------------------------------
(* semver::Version as the program uses it *)

\* a version with pre-release and build metadata (both possibly empty)
VersionFull(ma, mi, pa, pre, build) ==
    [major |-> ma, minor |-> mi, patch |-> pa, pre |-> pre, build |-> build]

Version(ma, mi, pa, pre) == VersionFull(ma, mi, pa, pre, <<>>)

\* Version::new
VersionNew(ma, mi, pa) == Version(ma, mi, pa, <<>>)

AllDigits(s) == \A i \in 1..Len(s) : IsDigit(s[i])

\* a numeric identifier: digits, no leading zero
IsNumericIdent(s) == s # <<>> /\ AllDigits(s) /\ (Len(s) > 1 => s[1] # "0")

\* a pre-release identifier: [0-9a-z-]+, and no leading zero when all digits
IsPreIdent(s) ==
    /\ s # <<>>
    /\ \A i \in 1..Len(s) : IsDigit(s[i]) \/ IsLetter(s[i]) \/ s[i] = "-"
    /\ (AllDigits(s) /\ Len(s) > 1 => s[1] # "0")

\* index of the first occurrence of c in s, 0 when absent
FirstIndex(s, c) ==
    IF \E i \in 1..Len(s) : s[i] = c
    THEN CHOOSE i \in 1..Len(s) : s[i] = c /\ \A j \in 1..(i - 1) : s[j] # c
    ELSE 0

\* a build identifier: [0-9a-z-]+, leading zeros allowed
IsBuildIdent(s) ==
    /\ s # <<>>
    /\ \A i \in 1..Len(s) : IsDigit(s[i]) \/ IsLetter(s[i]) \/ s[i] = "-"

\* Version::parse: MAJOR.MINOR.PATCH with an optional -PRERELEASE and an
\* optional +BUILD, nothing else (no operator, no blank, no missing component,
\* no leading zero in a number)
ParseVersion(s) ==
    LET plus  == FirstIndex(s, "+")
        main  == IF plus = 0 THEN s ELSE SubSeq(s, 1, plus - 1)
        build == IF plus = 0 THEN <<>> ELSE SubSeq(s, plus + 1, Len(s))
        dash  == FirstIndex(main, "-")
        core  == IF dash = 0 THEN main ELSE SubSeq(main, 1, dash - 1)
        pre   == IF dash = 0 THEN <<>> ELSE SubSeq(main, dash + 1, Len(main))
        nums  == Split(core, ".")
        ids   == Split(pre, ".")
        bids  == Split(build, ".")
    IN  IF /\ Len(nums) = 3
           /\ \A i \in 1..3 : IsNumericIdent(nums[i])
           /\ (dash # 0 => \A i \in 1..Len(ids) : IsPreIdent(ids[i]))
           /\ (plus # 0 => \A i \in 1..Len(bids) : IsBuildIdent(bids[i]))
        THEN Some(VersionFull(NumVal(nums[1]), NumVal(nums[2]), NumVal(nums[3]), pre, build))
        ELSE None

\* Display for Version
VersionToString(v) ==
    NumStr(v.major) \o <<".">> \o NumStr(v.minor) \o <<".">> \o NumStr(v.patch)
        \o (IF v.pre = <<>> THEN <<>> ELSE <<"-">> \o v.pre)
        \o (IF v.build = <<>> THEN <<>> ELSE <<"+">> \o v.build)

\* byte-wise comparison of two texts: -1, 0, 1
RECURSIVE StrCmp(_, _)
StrCmp(a, b) ==
    IF a = <<>> /\ b = <<>> THEN 0
    ELSE IF a = <<>> THEN -1
    ELSE IF b = <<>> THEN 1
    ELSE IF CharRank(Head(a)) < CharRank(Head(b)) THEN -1
    ELSE IF CharRank(Head(a)) > CharRank(Head(b)) THEN 1
    ELSE StrCmp(Tail(a), Tail(b))

NumCmp(a, b) == IF a < b THEN -1 ELSE IF a > b THEN 1 ELSE 0

\* one pre-release identifier against another: numeric below alphanumeric,
\* numeric by value, alphanumeric by bytes
IdentCmp(a, b) ==
    IF AllDigits(a) /\ AllDigits(b) THEN NumCmp(NumVal(a), NumVal(b))
    ELSE IF AllDigits(a) THEN -1
    ELSE IF AllDigits(b) THEN 1
    ELSE StrCmp(a, b)

RECURSIVE IdentsCmp(_, _)
IdentsCmp(x, y) ==
    IF x = <<>> /\ y = <<>> THEN 0
    ELSE IF x = <<>> THEN -1
    ELSE IF y = <<>> THEN 1
    ELSE LET c == IdentCmp(Head(x), Head(y))
         IN IF c # 0 THEN c ELSE IdentsCmp(Tail(x), Tail(y))

\* Ord for Prerelease: the empty pre-release (a release) is the greatest
PreCmp(p, q) ==
    IF p = q THEN 0
    ELSE IF p = <<>> THEN 1
    ELSE IF q = <<>> THEN -1
    ELSE IdentsCmp(Split(p, "."), Split(q, "."))

\* one build identifier against another: numeric below alphanumeric, numeric
\* by value and then by the number of leading zeros, alphanumeric by bytes
BuildIdentCmp(a, b) ==
    IF AllDigits(a) /\ AllDigits(b)
    THEN IF NumVal(a) # NumVal(b) THEN NumCmp(NumVal(a), NumVal(b))
         ELSE NumCmp(Len(a), Len(b))
    ELSE IF AllDigits(a) THEN -1
    ELSE IF AllDigits(b) THEN 1
    ELSE StrCmp(a, b)

RECURSIVE BuildIdentsCmp(_, _)
BuildIdentsCmp(x, y) ==
    IF x = <<>> /\ y = <<>> THEN 0
    ELSE IF x = <<>> THEN -1
    ELSE IF y = <<>> THEN 1
    ELSE LET c == BuildIdentCmp(Head(x), Head(y))
         IN IF c # 0 THEN c ELSE BuildIdentsCmp(Tail(x), Tail(y))

\* Ord for BuildMetadata: no build metadata is the least
BuildCmp(p, q) ==
    IF p = q THEN 0
    ELSE IF p = <<>> THEN -1
    ELSE IF q = <<>> THEN 1
    ELSE BuildIdentsCmp(Split(p, "."), Split(q, "."))

\* Ord for Version
VersionCmp(a, b) ==
    IF a.major # b.major THEN NumCmp(a.major, b.major)
    ELSE IF a.minor # b.minor THEN NumCmp(a.minor, b.minor)
    ELSE IF a.patch # b.patch THEN NumCmp(a.patch, b.patch)
    ELSE IF a.pre # b.pre THEN PreCmp(a.pre, b.pre)
    ELSE BuildCmp(a.build, b.build)

VersionLe(a, b) == VersionCmp(a, b) <= 0

----------------------------------------------------------------------------
(* core/dependency.rs: Dependency::update_type and has_update *)

UpdateTypes == {"Patch", "Minor", "Major", "UpToDate"}

\* a plausible slip: strict comparison, so an equal latest is not UpToDate
update_type_strict(cur, latest) ==
    IF latest = None THEN "UpToDate"
    ELSE LET l == Unwrap(latest)
         IN IF VersionCmp(l, cur) < 0 THEN "UpToDate"
            ELSE IF l.major > cur.major THEN "Major"
            ELSE IF l.minor > cur.minor THEN "Minor"
            ELSE "Patch"

update_type(cur, latest) ==
    IF latest = None THEN "UpToDate"
    ELSE LET l == Unwrap(latest)
         IN IF VersionLe(l, cur) THEN "UpToDate"
            ELSE IF l.major > cur.major THEN "Major"
            ELSE IF l.minor > cur.minor THEN "Minor"
            ELSE "Patch"

has_update(cur, latest) == update_type(cur, latest) # "UpToDate"

----------------------------------------------------------------------------
(* core/version.rs: the comparison helpers *)

is_major_update(current, latest) == latest.major > current.major

is_minor_update(current, latest) ==
    latest.major = current.major /\ latest.minor > current.minor

is_patch_update(current, latest) ==
    latest.major = current.major /\ latest.minor = current.minor /\ latest.patch > current.patch

----------------------------------------------------------------------------
(* analyzer/checker.rs: normalize_version and parse_version_req *)

\* a plausible slip: a two-component version loses its minor ("N.M" -> "N.0.0")
normalize_version_drop_minor(version) ==
    LET parts == Split(version, ".")
    IN  IF Len(parts) = 1 THEN parts[1] \o <<".", "0", ".", "0">>
        ELSE IF Len(parts) = 2 THEN parts[1] \o <<".", "0", ".", "0">>
        ELSE version

normalize_version(version) ==
    LET parts == Split(version, ".")
    IN  IF Len(parts) = 1 THEN parts[1] \o <<".", "0", ".", "0">>
        ELSE IF Len(parts) = 2 THEN parts[1] \o <<".">> \o parts[2] \o <<".", "0">>
        ELSE version

\* the operator characters, in the order the code tries them
Operators == <<"^", "~", "=", ">", "<">>

OperatorSet == {Operators[i] : i \in 1..Len(Operators)}
OpRank(c) == CHOOSE i \in 1..Len(Operators) : Operators[i] = c

\* a plausible slip: the '<' prefix is forgotten
CleanReq_no_lt(r) ==
    Trim(TrimStartMatches(TrimStartMatches(TrimStartMatches(
         TrimStartMatches(Trim(r), "^"), "~"), "="), ">"))

\* str::strip_prefix(c) falling back to the text itself: drops ONE leading c
StripOne(s, c) == IF s # <<>> /\ Head(s) = c THEN Tail(s) ELSE s

\* a plausible variant: each operator character is removed at most once
CleanReq_strip_one(r) ==
    Trim(StripOne(StripOne(StripOne(StripOne(StripOne(Trim(r), "^"), "~"), "="), ">"), "<"))

\* the chain of trims of parse_version_req
CleanReq(r) ==
    Trim(TrimStartMatches(TrimStartMatches(TrimStartMatches(TrimStartMatches(
         TrimStartMatches(Trim(r), "^"), "~"), "="), ">"), "<"))

parse_version_req(r) ==
    LET cleaned == CleanReq(r)
    IN  IF IsSome(ParseVersion(cleaned)) THEN ParseVersion(cleaned)
        ELSE ParseVersion(normalize_version(cleaned))

----------------------------------------------------------------------------
(* analyzer/conflicts.rs: ConflictReport, parse_duplicates, suggest_version *)

\* str::split_whitespace().collect(): the non-empty runs of non-blank chars
RECURSIVE SplitWsAcc(_, _)
SplitWsAcc(s, cur) ==
    IF s = <<>> THEN (IF cur = <<>> THEN <<>> ELSE <<cur>>)
    ELSE IF Head(s) \in Whitespace
         THEN (IF cur = <<>> THEN <<>> ELSE <<cur>>) \o SplitWsAcc(Tail(s), <<>>)
    ELSE SplitWsAcc(Tail(s), Append(cur, Head(s)))
SplitWhitespace(s) == SplitWsAcc(s, <<>>)

\* the characters trimmed from the front of the first token
TreeChars == {"|", "-", " ", Backquote}

\* what one line of the listing contributes: Some([name, version]) or None
LineEntry(rawLine) ==
    LET line  == Trim(rawLine)
        parts == SplitWhitespace(line)
    IN  IF line = <<>> THEN None
        ELSE IF Len(parts) >= 2 /\ parts[2] # <<>> /\ Head(parts[2]) = "v"
        THEN Some([name |-> TrimStartSet(parts[1], TreeChars), version |-> Tail(parts[2])])
        ELSE None

\* the entries of the lines, in line order
RECURSIVE Entries(_)
Entries(lines) ==
    IF lines = <<>> THEN <<>> ELSE LineEntry(Head(lines)) \o Entries(Tail(lines))

SeqRange(q) == {q[i] : i \in 1..Len(q)}

\* package_versions: name -> the versions pushed for it, in line order
RECURSIVE VersionsOf(_, _)
VersionsOf(entries, name) ==
    IF entries = <<>> THEN <<>>
    ELSE (IF Head(entries).name = name THEN <<Head(entries).version>> ELSE <<>>)
         \o VersionsOf(Tail(entries), name)

NamesOf(entries) == {e.name : e \in SeqRange(entries)}

\* package_dependents: one "(dependency tree)" per line counted for the name
DependentsOf(entries, name) ==
    [i \in 1..Len(VersionsOf(entries, name)) |-> "(dependency tree)"]

\* the orders in which a hash container of the elements of S may iterate
Perms(S) == {q \in [1..Cardinality(S) -> S] : SeqRange(q) = S}

\* Vec<Version>::sort, a stable sort: each element goes after its equals
RECURSIVE InsertVersion(_, _)
InsertVersion(sorted, x) ==
    IF sorted = <<>> THEN <<x>>
    ELSE IF VersionCmp(x, Head(sorted)) < 0 THEN <<x>> \o sorted
    ELSE <<Head(sorted)>> \o InsertVersion(Tail(sorted), x)

RECURSIVE SortVersions(_)
SortVersions(q) ==
    IF q = <<>> THEN <<>>
    ELSE InsertVersion(SortVersions(SubSeq(q, 1, Len(q) - 1)), q[Len(q)])

\* filter_map(|v| Version::parse(v).ok())
RECURSIVE ParseAll(_)
ParseAll(versions) ==
    IF versions = <<>> THEN <<>>
    ELSE ParseVersion(Head(versions)) \o ParseAll(Tail(versions))

\* a plausible slip: the parsed versions are not sorted before the last is taken
suggest_version_unsorted(versions) ==
    LET parsedAll == ParseAll(versions)
    IN  IF parsedAll = <<>> THEN None
        ELSE Some(VersionToString(parsedAll[Len(parsedAll)]))

suggest_version(versions) ==
    LET parsedAll == ParseAll(versions)
        sorted    == SortVersions(parsedAll)
    IN  IF parsedAll = <<>> THEN None
        ELSE Some(VersionToString(sorted[Len(sorted)]))

Conflict(name, versions, dependents) ==
    [package_name |-> name, versions |-> versions, dependents |-> dependents,
     suggested_version |-> suggest_version(versions)]

\* the loop that builds the conflict list: the packages in the map's iteration
\* order ord, the distinct versions of each in the set's iteration order vord
RECURSIVE BuildConflicts(_, _, _)
BuildConflicts(entries, ord, vord) ==
    IF ord = <<>> THEN <<>>
    ELSE LET name == Head(ord)
         IN (IF Len(vord[name]) > 1
             THEN <<Conflict(name, vord[name], DependentsOf(entries, name))>>
             ELSE <<>>)
            \o BuildConflicts(entries, Tail(ord), vord)

\* the comparator of the final sort
ByPackageName(a, b) == StrCmp(a.package_name, b.package_name)

\* conflicts.sort_by(...), a stable sort
RECURSIVE InsertConflict(_, _)
InsertConflict(sorted, x) ==
    IF sorted = <<>> THEN <<x>>
    ELSE IF ByPackageName(x, Head(sorted)) < 0 THEN <<x>> \o sorted
    ELSE <<Head(sorted)>> \o InsertConflict(Tail(sorted), x)

RECURSIVE SortConflicts(_)
SortConflicts(q) ==
    IF q = <<>> THEN <<>>
    ELSE InsertConflict(SortConflicts(SubSeq(q, 1, Len(q) - 1)), q[Len(q)])

\* a plausible slip: the final sort is left out
parse_duplicates_unsorted(output, ord, vord) ==
    LET entries == Entries(output) IN BuildConflicts(entries, ord, vord)

parse_duplicates(output, ord, vord) ==
    LET entries == Entries(output) IN SortConflicts(BuildConflicts(entries, ord, vord))

\* the iteration orders the two hash containers can produce for a listing
MapOrders(output) == Perms(NamesOf(Entries(output)))
SetOrders(output) ==
    LET entries == Entries(output)
        names == NamesOf(entries)
        uniq(n) == SeqRange(VersionsOf(entries, n))
    IN  {f \in [names -> UNION {Perms(uniq(n)) : n \in names}] :
            \A n \in names : f[n] \in Perms(uniq(n))}

\* ConflictReport::new
ConflictReportNew(conflicts, total_packages) ==
    [conflicts |-> conflicts, total_packages |-> total_packages,
     has_conflicts |-> conflicts # <<>>]

Ok(x) == [ok |-> TRUE, value |-> x]
Err(msg) == [ok |-> FALSE, error |-> msg]

\* str::contains on the tool's stderr, a sequence of words
Contains(text, word) == \E i \in 1..Len(text) : text[i] = word

\* lines().filter(|l| !l.trim().is_empty()).count()
RECURSIVE CountNonEmpty(_)
CountNonEmpty(lines) ==
    IF lines = <<>> THEN 0
    ELSE (IF Trim(Head(lines)) = <<>> THEN 0 ELSE 1) + CountNonEmpty(Tail(lines))

\* detect_conflicts without the branch for a missing lock file: every failed
\* first run is an error
detect_conflicts_strict(first, second, conflicts) ==
    IF ~first.spawned THEN Err("Failed to run cargo tree. Make sure cargo is installed.")
    ELSE IF ~first.success THEN Err("cargo tree failed")
    ELSE IF ~second.spawned THEN Err("Failed to run cargo tree")
    ELSE Ok(ConflictReportNew(conflicts,
                              IF second.success THEN CountNonEmpty(second.stdout) ELSE 0))

\* detect_conflicts, given the answers of the two tool runs and what
\* parse_duplicates makes of the first one's output
detect_conflicts(first, second, conflicts) ==
    IF ~first.spawned THEN Err("Failed to run cargo tree. Make sure cargo is installed.")
    ELSE IF ~first.success
    THEN IF Contains(first.stderr, "Cargo.lock")
         THEN Ok(ConflictReportNew(<<>>, 0))
         ELSE Err("cargo tree failed")
    ELSE IF ~second.spawned THEN Err("Failed to run cargo tree")
    ELSE Ok(ConflictReportNew(conflicts,
                              IF second.success THEN CountNonEmpty(second.stdout) ELSE 0))

----------------------------------------------------------------------------
(* core/manifest.rs: Manifest, DependencySpec *)

\* the path the command was given
ManifestPath == "demo/Cargo.toml"

Simple(v) == [kind |-> "Simple", version |-> Some(v), git |-> None, path |-> None]
Detailed(version, git, path) ==
    [kind |-> "Detailed", version |-> version, git |-> git, path |-> path]

\* DependencySpec::version
version_of(spec) == spec.version

\* DependencySpec::is_git
is_git(spec) == IF spec.kind = "Simple" THEN FALSE ELSE IsSome(spec.git)

\* DependencySpec::is_path
is_path(spec) == IF spec.kind = "Simple" THEN FALSE ELSE IsSome(spec.path)

\* a plausible slip: a dependency that declares a version counts as registry-sourced
is_crates_io_if_versioned(spec) == (~is_git(spec) /\ ~is_path(spec)) \/ IsSome(spec.version)

\* DependencySpec::is_crates_io
is_crates_io(spec) == ~is_git(spec) /\ ~is_path(spec)

\* a file at the manifest path: what it is ("unreadable", such as a directory,
\* "malformed" or a "manifest"), whether it has a [dependencies] table, its
\* declarations in order, and the edits applied to its text since
ManifestFile(form, section, deps, edits) ==
    [form |-> form, section |-> section, deps |-> deps, edits |-> edits]

UnreadableFile == ManifestFile("unreadable", FALSE, <<>>, <<>>)
MalformedFile == ManifestFile("malformed", FALSE, <<>>, <<>>)

\* toml::from_str::<ManifestContent>: the [dependencies] table becomes a
\* HashMap, which keeps the entries and forgets the order of declaration
ParseManifest(file) ==
    IF file.form # "manifest" THEN Err(<<"Failed to parse Cargo.toml">>)
    ELSE Ok([dependencies |->
                IF file.section
                THEN Some([n \in {file.deps[i].name : i \in 1..Len(file.deps)} |->
                             (CHOOSE d \in SeqRange(file.deps) : d.name = n).spec])
                ELSE None])

\* a plausible slip: the existence check is left out, so a missing file
\* surfaces as the read error
from_path_unchecked(file) ==
    IF file = None \/ Unwrap(file).form = "unreadable"
    THEN Err(<<"Failed", "to", "read", "Cargo.toml", "at", ManifestPath>>)
    ELSE LET content == ParseManifest(Unwrap(file))
         IN IF content.ok THEN Ok([path |-> ManifestPath, content |-> content.value])
            ELSE content

\* Manifest::find / Manifest::from_path on the file at the given path; an
\* error message is a sequence of words
from_path(file) ==
    IF file = None THEN Err(<<"Cargo.toml", "not", "found", "at:", ManifestPath>>)
    ELSE IF Unwrap(file).form = "unreadable"
    THEN Err(<<"Failed", "to", "read", "Cargo.toml", "at", ManifestPath>>)
    ELSE LET content == ParseManifest(Unwrap(file))
         IN IF content.ok THEN Ok([path |-> ManifestPath, content |-> content.value])
            ELSE content

\* the names the dependencies map holds
DeclaredNames(manifest) ==
    IF manifest.content.dependencies = None THEN {}
    ELSE DOMAIN Unwrap(manifest.content.dependencies)

\* Manifest::get_dependencies: the entries in the map's iteration order ord
get_dependencies(manifest, ord) ==
    IF manifest.content.dependencies = None THEN <<>>
    ELSE LET map == Unwrap(manifest.content.dependencies)
         IN [i \in 1..Len(ord) |-> [name |-> ord[i], spec |-> map[ord[i]]]]

----------------------------------------------------------------------------
(* utils/crates_io.rs and analyzer/checker.rs: the dependency check *)

\* Dependency::new(name, current, true), then with_latest when there is one
Dependency(name, current, latest) ==
    [name |-> name, current_version |-> current, latest_version |-> latest,
     is_direct |-> TRUE]

\* an answer of the registry: the request was sent or not, the status, and the
\* body's newest_version (None when the body is not the expected JSON)
Response(sent, status, newest) == [sent |-> sent, status |-> status, newest |-> newest]

IsSuccess(status) == 200 <= status /\ status <= 299

\* CratesIoClient::get_latest_version
get_latest_version(response) ==
    IF ~response.sent THEN Err(<<"Failed to fetch info for crate">>)
    ELSE IF ~IsSuccess(response.status) THEN Err(<<"Crates.io API returned error">>)
    ELSE IF response.newest = None THEN Err(<<"Failed to parse response for crate">>)
    ELSE IF ParseVersion(Unwrap(response.newest)) = None
    THEN Err(<<"Failed to parse version">>)
    ELSE Ok(Unwrap(ParseVersion(Unwrap(response.newest))))

\* what one turn of the loop does: the result entries it pushes, the lookups
\* it makes and the warnings it prints, and whether the call goes on
CheckStep(pushed, asked, warnings, ok) ==
    [results |-> pushed, lookups |-> asked, warnings |-> warnings, ok |-> ok]

\* a plausible slip: a failed lookup is propagated with `?`, ending the call
check_one_propagate(name, spec, response) ==
    IF ~is_crates_io(spec) THEN CheckStep(<<>>, <<>>, <<>>, TRUE)
    ELSE IF version_of(spec) = None THEN CheckStep(<<>>, <<>>, <<>>, TRUE)
    ELSE IF parse_version_req(Unwrap(version_of(spec))) = None
    THEN CheckStep(<<>>, <<>>, <<<<"Warning: Could not parse version", name>>>>, TRUE)
    ELSE LET current == Unwrap(parse_version_req(Unwrap(version_of(spec))))
             fetched == get_latest_version(response)
         IN  IF fetched.ok
             THEN CheckStep(<<Dependency(name, current, Some(fetched.value))>>, <<name>>, <<>>, TRUE)
             ELSE CheckStep(<<>>, <<name>>, <<>>, FALSE)

\* the body of the loop of check_dependencies for one (name, spec)
check_one(name, spec, response) ==
    IF ~is_crates_io(spec) THEN CheckStep(<<>>, <<>>, <<>>, TRUE)
    ELSE IF version_of(spec) = None THEN CheckStep(<<>>, <<>>, <<>>, TRUE)
    ELSE IF parse_version_req(Unwrap(version_of(spec))) = None
    THEN CheckStep(<<>>, <<>>, <<<<"Warning: Could not parse version", name>>>>, TRUE)
    ELSE LET current == Unwrap(parse_version_req(Unwrap(version_of(spec))))
             fetched == get_latest_version(response)
         IN  IF fetched.ok
             THEN CheckStep(<<Dependency(name, current, Some(fetched.value))>>, <<name>>, <<>>, TRUE)
             ELSE CheckStep(<<Dependency(name, current, None)>>, <<name>>,
                            <<<<"Warning: Failed to fetch info for", name>> \o fetched.error>>,
                            TRUE)

----------------------------------------------------------------------------
(* updater/update.rs: DependencyUpdater *)

BackupPath == "demo/Cargo.toml.backup"

\* what is left of a file whose write broke off
PartialFile == MalformedFile

\* DependencyUpdater::update_dependency on the text held in memory; found
\* tells whether one of the two patterns matches a line of it
update_dependency(content, name, new_version, found) ==
    IF found
    THEN Ok([content EXCEPT !.edits =
                Append(@, [op |-> "set_version", name |-> name, version |-> new_version])])
    ELSE Err(<<"Could not find dependency ", name, " in Cargo.toml">>)

\* DependencyUpdater::remove_dependency (called by clean_command)
remove_dependency(content, name, found) ==
    IF found
    THEN Ok([content EXCEPT !.edits = Append(@, [op |-> "remove", name |-> name])])
    ELSE Err(<<"Could not find dependency ", name, " in Cargo.toml">>)

Effect(op, arg) == [op |-> op, arg |-> arg]

\* the disk after a call, the effects it had and its result
Saved(result, file, backup, effects) ==
    [result |-> result, file |-> file, backup |-> backup, effects |-> effects]

WriteOutcomes == {"written", "refused", "partial"}

\* save that goes on to the write when the copy failed
save_unchecked_copy(content, file, backup, copied, written) ==
    IF written = "written"
    THEN Saved(Ok(TRUE), Some(content), IF copied THEN file ELSE backup,
               <<Effect("copy", BackupPath), Effect("write", ManifestPath)>>)
    ELSE Saved(Err(<<"Failed to write updated Cargo.toml">>),
               IF written = "partial" THEN Some(PartialFile) ELSE file,
               IF copied THEN file ELSE backup,
               <<Effect("copy", BackupPath), Effect("write", ManifestPath)>>)

\* save that makes the backup only where there is none yet
save_keep_backup(content, file, backup, copied, written) ==
    IF ~copied
    THEN Saved(Err(<<"Failed to create backup">>), file, backup,
               <<Effect("copy", BackupPath)>>)
    ELSE IF written = "written"
    THEN Saved(Ok(TRUE), Some(content), IF backup = None THEN file ELSE backup,
               <<Effect("copy", BackupPath), Effect("write", ManifestPath)>>)
    ELSE Saved(Err(<<"Failed to write updated Cargo.toml">>),
               IF written = "partial" THEN Some(PartialFile) ELSE file,
               IF backup = None THEN file ELSE backup,
               <<Effect("copy", BackupPath), Effect("write", ManifestPath)>>)

\* DependencyUpdater::save: copy the file to the backup path, then write the
\* text held in memory over it; copied and written are what the file system
\* does with the two calls
save(content, file, backup, copied, written) ==
    IF ~copied
    THEN Saved(Err(<<"Failed to create backup">>), file, backup,
               <<Effect("copy", BackupPath)>>)
    ELSE IF written = "written"
    THEN Saved(Ok(TRUE), Some(content), file,
               <<Effect("copy", BackupPath), Effect("write", ManifestPath)>>)
    ELSE Saved(Err(<<"Failed to write updated Cargo.toml">>),
               IF written = "partial" THEN Some(PartialFile) ELSE file, file,
               <<Effect("copy", BackupPath), Effect("write", ManifestPath)>>)

----------------------------------------------------------------------------
(* updater/update.rs: update_dependency on the text of the manifest *)

\* Manifest text is a sequence of lines and a line a sequence of tokens: a
\* token is one character of white space or punctuation, or a run of other
\* characters that a pattern matches or misses as a whole.  A name is the
\* sequence of its tokens (serde_json is "serde", "_json").  An entry of a
\* valid manifest lies on one line, so the patterns, which are anchored at the
\* start of a line by (?m)^, are matched line by line.
Quote == "\""

\* the element \s* of a pattern
Spaces == <<"\\s*">>

\* \s* from position i of a line: the position after the white space there
RECURSIVE SkipSpace(_, _)
SkipSpace(line, i) ==
    IF i <= Len(line) /\ line[i] \in Whitespace THEN SkipSpace(line, i + 1) ELSE i

\* a literal from position i: the position after it, or 0 when it is not there
Literal(line, i, lit) ==
    IF i + Len(lit) - 1 <= Len(line) /\ SubSeq(line, i, i + Len(lit) - 1) = lit
    THEN i + Len(lit)
    ELSE 0

\* the elements of a pattern from position i: the position after them, or 0
RECURSIVE MatchFrom(_, _, _)
MatchFrom(line, i, pat) ==
    IF i = 0 \/ pat = <<>> THEN i
    ELSE MatchFrom(line,
                   IF Head(pat) = Spaces THEN SkipSpace(line, i)
                   ELSE Literal(line, i, Head(pat)),
                   Tail(pat))

\* the first capture group of
\* (?m)^(\s*{name}\s*=\s*\{\s*version\s*=\s*")([^"]+)(")
detailed_pattern(dep_name) ==
    <<Spaces, dep_name, Spaces, <<"=">>, Spaces, <<"{">>, Spaces, <<"version">>,
      Spaces, <<"=">>, Spaces, <<Quote>>>>

\* the first capture group of (?m)^(\s*{name}\s*=\s*")([^"]+)(")
simple_pattern(dep_name) ==
    <<Spaces, dep_name, Spaces, <<"=">>, Spaces, <<Quote>>>>

\* the position of the first quote at or after position i, or 0
RECURSIVE NextQuote(_, _)
NextQuote(line, i) ==
    IF i > Len(line) THEN 0
    ELSE IF line[i] = Quote THEN i
    ELSE NextQuote(line, i + 1)

\* Regex::captures on one line: group 1 ends before position value, group 2
\* ([^"]+, at least one token) runs from there to before position close,
\* group 3 is the quote at close
Captures(line, pat) ==
    LET p == MatchFrom(line, 1, pat)
        q == IF p = 0 THEN 0 ELSE NextQuote(line, p)
    IN  IF p # 0 /\ q > p THEN Some([value |-> p, close |-> q]) ELSE None

\* Regex::is_match on the text
is_match(content, pat) == \E k \in 1..Len(content) : Captures(content[k], pat) # None

\* Regex::replace with format!("{}{}{}", &caps[1], new_version, &caps[3]):
\* the leftmost match only
replace(content, pat, new_version) ==
    LET k == CHOOSE j \in 1..Len(content) :
                 /\ Captures(content[j], pat) # None
                 /\ \A h \in 1..(j - 1) : Captures(content[h], pat) = None
        c == Unwrap(Captures(content[k], pat))
    IN  [content EXCEPT ![k] = SubSeq(@, 1, c.value - 1) \o new_version
                                   \o SubSeq(@, c.close, Len(@))]

\* DependencyUpdater::update_dependency: the new text, or the error
update_dependency_text(text, dep_name, new_version) ==
    IF is_match(text, detailed_pattern(dep_name))
    THEN Ok(replace(text, detailed_pattern(dep_name), new_version))
    ELSE IF is_match(text, simple_pattern(dep_name))
    THEN Ok(replace(text, simple_pattern(dep_name), new_version))
    ELSE Err(<<"Could not find dependency ">> \o dep_name \o <<" in Cargo.toml">>)

\* a file that holds manifest text
TextFile(lines) == [form |-> "manifest", lines |-> lines]

----------------------------------------------------------------------------

(* utils/cargo.rs: DependencyUsageAnalyzer on the text of the sources *)

\* The text of a source file is a sequence of tokens: a token is a mark of
\* punctuation, a blank, a line end, an underscore, or a run of letters that
\* a pattern matches or misses as a whole.  A name is the sequence of its
\* tokens (serde_json is "serde", "_", "json"; left-pad is "left", "-", "pad").
LineEnd == "\n"
SourceSpace == {" ", LineEnd}
Punctuation ==
    {" ", LineEnd, "::", ":", ";", "!", "-", "#", "[", "]", "{", "}", "(", ")", ",",
     Quote, "/", "=", "*", "."}

\* [a-zA-Z0-9_]: the token is part of an identifier
IsIdentToken(t) == t \notin Punctuation

\* String::replace(from, to) on a name
Replace(name, from, to) == [i \in 1..Len(name) |-> IF name[i] = from THEN to ELSE name[i]]

\* (?m)^ : position i is the start of a line
AtLineStart(content, i) == i = 1 \/ (i > 1 /\ i <= Len(content) + 1 /\ content[i - 1] = LineEnd)

\* \s* from position i: the position after the white space there
RECURSIVE SkipSourceSpace(_, _)
SkipSourceSpace(content, i) ==
    IF i <= Len(content) /\ content[i] \in SourceSpace
    THEN SkipSourceSpace(content, i + 1)
    ELSE i

\* [a-zA-Z_][a-zA-Z0-9_]* from position i, greedy: the position after it
RECURSIVE IdentEnd(_, _)
IdentEnd(content, i) ==
    IF i <= Len(content) /\ IsIdentToken(content[i]) THEN IdentEnd(content, i + 1) ELSE i

\* the identifier that starts at position i, <<>> if none does
IdentAt(content, i) == SubSeq(content, i, IdentEnd(content, i) - 1)

\* a literal from position i, its parts separated by \s+ : the position after
\* it, or 0 when it is not there
RECURSIVE Words(_, _, _)
Words(content, i, lits) ==
    IF lits = <<>> THEN i
    ELSE IF i > Len(content) \/ content[i] # Head(lits) THEN 0
    ELSE LET j == SkipSourceSpace(content, i + 1)
         IN  IF j = i + 1 THEN 0 ELSE Words(content, j, Tail(lits))

\* what follows position i is one of the tokens
Followed(content, i, tokens) == i <= Len(content) /\ content[i] \in tokens

\* captures of (?m)^use\s+([a-zA-Z_][a-zA-Z0-9_]*)(?:::|;)
use_pattern(content) ==
    {IdentAt(content, Words(content, i, <<"use">>)) :
        i \in {k \in 1..Len(content) :
                 /\ AtLineStart(content, k)
                 /\ Words(content, k, <<"use">>) # 0
                 /\ IdentAt(content, Words(content, k, <<"use">>)) # <<>>
                 /\ Followed(content, IdentEnd(content, Words(content, k, <<"use">>)),
                             {"::", ";"})}}

\* captures of (?m)^extern\s+crate\s+([a-zA-Z_][a-zA-Z0-9_]*)
extern_pattern(content) ==
    {IdentAt(content, Words(content, i, <<"extern", "crate">>)) :
        i \in {k \in 1..Len(content) :
                 /\ AtLineStart(content, k)
                 /\ Words(content, k, <<"extern", "crate">>) # 0
                 /\ IdentAt(content, Words(content, k, <<"extern", "crate">>)) # <<>>}}

\* #[macro_use]
MacroUse == <<"#", "[", "macro", "_", "use", "]">>

\* captures of #\[macro_use\]\s*extern\s+crate\s+([a-zA-Z_][a-zA-Z0-9_]*)
macro_use_pattern(content) ==
    {IdentAt(content, Words(content, SkipSourceSpace(content, i + Len(MacroUse)),
                            <<"extern", "crate">>)) :
        i \in {k \in 1..Len(content) :
                 /\ k + Len(MacroUse) - 1 <= Len(content)
                 /\ SubSeq(content, k, k + Len(MacroUse) - 1) = MacroUse
                 /\ Words(content, SkipSourceSpace(content, k + Len(MacroUse)),
                          <<"extern", "crate">>) # 0
                 /\ IdentAt(content, Words(content,
                                           SkipSourceSpace(content, k + Len(MacroUse)),
                                           <<"extern", "crate">>)) # <<>>}}

\* captures of ([a-zA-Z_][a-zA-Z0-9_]*)(?:::|\!) : the leftmost match of an
\* identifier begins where the identifier begins
macro_call_pattern(content) ==
    {IdentAt(content, i) :
        i \in {k \in 1..Len(content) :
                 /\ IsIdentToken(content[k])
                 /\ (k = 1 \/ ~IsIdentToken(content[k - 1]))
                 /\ Followed(content, IdentEnd(content, k), {"::", "!"})}}

\* a file of the project
SourceFile(dir, ext, content) == [dir |-> dir, ext |-> ext, content |-> content]

\* find_rust_files: the .rs files under src, tests and examples
find_rust_files(files) ==
    SelectSeq(files, LAMBDA f : f.dir \in {"src", "tests", "examples"} /\ f.ext = "rs")

\* the names one file adds to used_deps; a file that cannot be read adds none
FileUses(file) ==
    IF file.content = None THEN {}
    ELSE LET c == Unwrap(file.content)
             found == use_pattern(c) \cup extern_pattern(c) \cup macro_use_pattern(c)
                          \cup macro_call_pattern(c)
         IN  found \cup {Replace(n, "_", "-") : n \in found}

std_crates == {<<"std">>, <<"core">>, <<"alloc">>, <<"proc", "_", "macro">>, <<"test">>}

\* DependencyUsageAnalyzer::find_used_dependencies
find_used_dependencies(files) ==
    UNION {FileUses(f) : f \in SeqRange(find_rust_files(files))} \cup std_crates

\* find_unused_dependencies that looks the name up as it is declared only
find_unused_dependencies_as_declared(names, files) ==
    SelectSeq(names, LAMBDA name : name \notin find_used_dependencies(files))

\* DependencyUsageAnalyzer::find_unused_dependencies on spelled-out names
find_unused_dependencies_text(names, files) ==
    LET used == find_used_dependencies(files)
        is_used(name) == \/ name \in used
                         \/ Replace(name, "-", "_") \in used
                         \/ Replace(name, "_", "-") \in used
    IN  SelectSeq(names, LAMBDA name : ~is_used(name))

----------------------------------------------------------------------------

(* analyzer/health.rs: advisories, is_version_affected, check_health *)

\* str::strip_prefix: Some(rest) when the text begins with the prefix
StripPrefix(s, prefix) ==
    IF Len(s) >= Len(prefix) /\ SubSeq(s, 1, Len(prefix)) = prefix
    THEN Some(SubSeq(s, Len(prefix) + 1, Len(s)))
    ELSE None

\* Version::parse of what follows the prefix of a part
BoundOf(part, prefix) == ParseVersion(Trim(Unwrap(StripPrefix(part, prefix))))

\* one turn of the loop of is_version_affected: FALSE when the part makes the
\* function return false; a part with no known prefix, or with a bound that is
\* no version, is passed over
PartAllows(version, rawPart) ==
    LET part == Trim(rawPart)
    IN  IF StripPrefix(part, <<"<", " ">>) # None
        THEN LET max == BoundOf(part, <<"<", " ">>)
             IN  max = None \/ ~(VersionCmp(version, Unwrap(max)) >= 0)
        ELSE IF StripPrefix(part, <<"<", "=", " ">>) # None
        THEN LET max == BoundOf(part, <<"<", "=", " ">>)
             IN  max = None \/ ~(VersionCmp(version, Unwrap(max)) > 0)
        ELSE IF StripPrefix(part, <<">", "=", " ">>) # None
        THEN LET min == BoundOf(part, <<">", "=", " ">>)
             IN  min = None \/ ~(VersionCmp(version, Unwrap(min)) < 0)
        ELSE IF StripPrefix(part, <<">", " ">>) # None
        THEN LET min == BoundOf(part, <<">", " ">>)
             IN  min = None \/ ~(VersionCmp(version, Unwrap(min)) <= 0)
        ELSE TRUE

\* is_version_affected if it looked at the first part of the range only
is_version_affected_first_part(version, affected_spec) ==
    PartAllows(version, Head(Split(affected_spec, ",")))

\* HealthChecker::is_version_affected
is_version_affected(version, affected_spec) ==
    LET parts == Split(affected_spec, ",")
    IN  \A i \in 1..Len(parts) : PartAllows(version, parts[i])

Advisory(id, severity, affected_versions) ==
    [id |-> id, severity |-> severity, affected_versions |-> affected_versions]

\* load_advisory_database: crate name -> advisories
advisory_cache ==
    [name \in {"hyper", "regex", "tokio", "chrono"} |->
       CASE name = "hyper" ->
              <<Advisory("RUSTSEC-2021-0078", "High",
                         <<"<", " ", "0", ".", "1", "4", ".", "1", "0">>)>>
         [] name = "regex" ->
              <<Advisory("RUSTSEC-2022-0013", "Medium",
                         <<"<", " ", "1", ".", "5", ".", "5">>)>>
         [] name = "tokio" ->
              <<Advisory("RUSTSEC-2023-0001", "High",
                         <<">", "=", " ", "1", ".", "8", ".", "0", ",", " ",
                           "<", " ", "1", ".", "1", "8", ".", "5">>)>>
         [] name = "chrono" ->
              <<Advisory("RUSTSEC-2020-0159", "Medium",
                         <<"<", " ", "0", ".", "4", ".", "2", "0">>)>>]

\* the body of the loop of check_health
DependencyHealth(dep) ==
    [name |-> dep.name,
     version |-> VersionToString(dep.current_version),
     advisories |-> IF dep.name \in DOMAIN advisory_cache
                    THEN SelectSeq(advisory_cache[dep.name],
                                   LAMBDA advisory :
                                      is_version_affected(dep.current_version,
                                                          advisory.affected_versions))
                    ELSE <<>>,
     is_outdated |-> has_update(dep.current_version, dep.latest_version)]

\* the advisories of a severity over all entries
SeverityCount(entries, severity) ==
    Cardinality({p \in {<<i, j>> : i \in 1..Len(entries), j \in 1..MaxAdvisories} :
                   /\ p[2] <= Len(entries[p[1]].advisories)
                   /\ entries[p[1]].advisories[p[2]].severity = severity})

\* HealthReport::new
HealthReportNew(entries) ==
    [dependencies |-> entries,
     total_dependencies |-> Len(entries),
     vulnerable_count |-> Cardinality({i \in 1..Len(entries) : entries[i].advisories # <<>>}),
     outdated_count |-> Cardinality({i \in 1..Len(entries) : entries[i].is_outdated}),
     critical_count |-> SeverityCount(entries, "Critical"),
     high_count |-> SeverityCount(entries, "High"),
     medium_count |-> SeverityCount(entries, "Medium"),
     low_count |-> SeverityCount(entries, "Low")]

\* HealthChecker::check_health
check_health(dependencies) ==
    HealthReportNew([i \in 1..Len(dependencies) |-> DependencyHealth(dependencies[i])])

----------------------------------------------------------------------------

(* cli/commands.rs and main.rs: what a command does once its inputs are known *)

\* how a command ends: exit status, lines printed to stdout and to stderr (a
\* line is a sequence of fragments), the effects it had, and the manifest and
\* backup files it leaves
Outcome(exit, out, err, effects, file, backup) ==
    [exit |-> exit, out |-> out, err |-> err, effects |-> effects,
     file |-> file, backup |-> backup]

\* main: a command that returns Err(e) prints the error and exits non-zero
ErrorLine(e) == <<"Error: ">> \o e

\* the elements of q at the indices in picked, in the order of q
RECURSIVE Pick(_, _, _)
Pick(q, picked, i) ==
    IF i > Len(q) THEN <<>>
    ELSE (IF i \in picked THEN <<q[i]>> ELSE <<>>) \o Pick(q, picked, i + 1)

\* check_command after check_dependencies
check_report(dependencies) ==
    IF dependencies = <<>> THEN <<<<"No dependencies found in Cargo.toml">>>>
    ELSE LET updates == SelectSeq(dependencies,
                           LAMBDA d : update_type(d.current_version, d.latest_version) # "UpToDate")
         IN  <<<<"Update Summary">>>> \o
             (IF updates = <<>> THEN <<<<"All dependencies are up to date!">>>>
              ELSE <<<<"Run cargo sane update to update dependencies interactively.">>>>)

\* health_command after check_dependencies
health_report(dependencies, json) ==
    IF dependencies = <<>>
    THEN IF json THEN <<<<"{dependencies: [], vulnerable_count: 0}">>>>
         ELSE <<<<"No dependencies found in Cargo.toml">>>>
    ELSE IF json THEN <<<<"report as JSON">>>> ELSE <<<<"Health Report">>>>

\* the loop of update_command over to_update: the text after the edits and
\* the lines printed
Applied(content, out, err) == [content |-> content, out |-> out, err |-> err]

\* the loop of update_command if it gave up at the first dependency that
\* update_dependency cannot find
RECURSIVE apply_updates_until_failure(_, _, _)
apply_updates_until_failure(content, to_update, found) ==
    IF to_update = <<>> THEN Applied(content, <<>>, <<>>)
    ELSE LET dep == Head(to_update)
             r == update_dependency(content, dep.name,
                                    VersionToString(Unwrap(dep.latest_version)),
                                    found[dep.name])
         IN  IF r.ok
             THEN LET rest == apply_updates_until_failure(r.value, Tail(to_update), found)
                  IN  Applied(rest.content, <<<<"Updated ", dep.name>>>> \o rest.out, rest.err)
             ELSE Applied(content, <<>>, <<<<"Failed to update ", dep.name>> \o r.error>>)

RECURSIVE apply_updates(_, _, _)
apply_updates(content, to_update, found) ==
    IF to_update = <<>> THEN Applied(content, <<>>, <<>>)
    ELSE LET dep == Head(to_update)
         IN  IF dep.latest_version = None
             THEN apply_updates(content, Tail(to_update), found)
             ELSE LET r == update_dependency(content, dep.name,
                                             VersionToString(Unwrap(dep.latest_version)),
                                             found[dep.name])
                      rest == apply_updates(IF r.ok THEN r.value ELSE content,
                                            Tail(to_update), found)
                  IN  IF r.ok
                      THEN Applied(rest.content, <<<<"Updated ", dep.name>>>> \o rest.out, rest.err)
                      ELSE Applied(rest.content, rest.out,
                                   <<<<"Failed to update ", dep.name>> \o r.error>> \o rest.err)

\* update_command after check_dependencies; select and confirm are what the
\* two prompts return
update_rest(dependencies, dry_run, all, select, confirm, found, copied, written, file, backup) ==
    LET updatable == SelectSeq(dependencies,
                        LAMBDA d : has_update(d.current_version, d.latest_version))
        asked == IF all THEN <<>> ELSE <<Effect("prompt", "select")>>
    IN  IF updatable = <<>>
        THEN Outcome(0, <<<<"All dependencies are up to date!">>>>, <<>>, <<>>, file, backup)
        ELSE IF ~all /\ ~select.ok
        THEN Outcome(1, <<>>, <<ErrorLine(select.error)>>, asked, file, backup)
        ELSE
        LET to_update == IF all THEN updatable ELSE Pick(updatable, select.value, 1)
            asked2 == IF ~all /\ ~dry_run
                      THEN asked \o <<Effect("prompt", "confirm")>> ELSE asked
        IN  IF to_update = <<>>
            THEN Outcome(0, <<<<"No dependencies selected for update.">>>>, <<>>, asked,
                         file, backup)
            ELSE IF ~all /\ ~dry_run /\ ~confirm.ok
            THEN Outcome(1, <<>>, <<ErrorLine(confirm.error)>>, asked2, file, backup)
            ELSE IF ~all /\ ~dry_run /\ ~confirm.value
            THEN Outcome(0, <<<<"Update cancelled.">>>>, <<>>, asked2, file, backup)
            ELSE IF dry_run
            THEN Outcome(0, <<<<"Dry-run mode: No changes will be made.">>>>, <<>>, asked2,
                         file, backup)
            ELSE
            LET applied == apply_updates(Unwrap(file), to_update, found)
                saved == save(applied.content, file, backup, copied, written)
            IN  IF saved.result.ok
                THEN Outcome(0, applied.out \o <<<<"Cargo.toml updated successfully!">>,
                                                 <<"Backup saved as Cargo.toml.backup">>>>,
                             applied.err, asked2 \o saved.effects, saved.file, saved.backup)
                ELSE Outcome(1, applied.out,
                             applied.err \o <<ErrorLine(saved.result.error)>>,
                             asked2 \o saved.effects, saved.file, saved.backup)

\* the `cargo update -p <package>` runs of fix_command, one per conflict
\* that has a suggestion
RECURSIVE cargo_updates(_)
cargo_updates(conflicts) ==
    IF conflicts = <<>> THEN <<>>
    ELSE (IF Head(conflicts).suggested_version # None
          THEN <<Effect("cargo update", Head(conflicts).package_name)>> ELSE <<>>)
         \o cargo_updates(Tail(conflicts))

\* detect_conflicts reaches its second run of `cargo tree`
RunsTotal(first) == first.spawned /\ first.success

\* the runs of `cargo tree` detect_conflicts makes
tree_runs(first) ==
    IF RunsTotal(first)
    THEN <<Effect("cargo tree", "duplicates"), Effect("cargo tree", "prefix none")>>
    ELSE <<Effect("cargo tree", "duplicates")>>

\* fix_command after the manifest is loaded; report is what detect_conflicts
\* returned, confirm what the prompt returns
fix_rest(first, report, auto, confirm, file, backup) ==
    IF ~report.ok
    THEN Outcome(1, <<>>, <<ErrorLine(<<report.error>>)>>, tree_runs(first), file, backup)
    ELSE IF ~report.value.has_conflicts
    THEN Outcome(0, <<<<"No version conflicts detected!">>>>, <<>>, tree_runs(first),
                 file, backup)
    ELSE IF cargo_updates(report.value.conflicts) = <<>>
    THEN Outcome(0, <<<<"No automatic fixes available.">>>>, <<>>, tree_runs(first),
                 file, backup)
    ELSE IF auto
    THEN Outcome(0, <<<<"Fix attempt complete!">>>>, <<>>,
                 tree_runs(first) \o cargo_updates(report.value.conflicts), file, backup)
    ELSE IF ~confirm.ok
    THEN Outcome(1, <<>>, <<ErrorLine(confirm.error)>>,
                 tree_runs(first) \o <<Effect("prompt", "confirm")>>, file, backup)
    ELSE IF confirm.value
    THEN Outcome(0, <<<<"Fix attempt complete!">>>>, <<>>,
                 tree_runs(first) \o <<Effect("prompt", "confirm")>>
                     \o cargo_updates(report.value.conflicts), file, backup)
    ELSE Outcome(0, <<<<"No changes made.">>>>, <<>>,
                 tree_runs(first) \o <<Effect("prompt", "confirm")>>, file, backup)

\* the loop of clean_command over unused
RECURSIVE apply_removals(_, _, _)
apply_removals(content, unused, found) ==
    IF unused = <<>> THEN Applied(content, <<>>, <<>>)
    ELSE LET r == remove_dependency(content, Head(unused), found[Head(unused)])
             rest == apply_removals(IF r.ok THEN r.value ELSE content, Tail(unused), found)
         IN  IF r.ok
             THEN Applied(rest.content, <<<<"Removed ", Head(unused)>>>> \o rest.out, rest.err)
             ELSE Applied(rest.content, rest.out,
                          <<<<"Failed to remove ", Head(unused)>> \o r.error>> \o rest.err)

\* DependencyUsageAnalyzer::find_unused_dependencies: the declared names, in
\* the order given, that the scan of the sources did not find used (a name
\* of DepNames holds no hyphen and no underscore: its three spellings are one;
\* find_unused_dependencies_text tells the spellings apart)
find_unused_dependencies(declared_deps, used) ==
    LET names == [i \in 1..Len(declared_deps) |-> declared_deps[i].name]
    IN  SelectSeq(names, LAMBDA n : n \notin used)

\* clean_command if it went on to remove whatever the prompt returned
clean_rest_unconfirmed(declared_deps, used, dry_run, confirm, found, copied, written, file, backup) ==
    LET unused == find_unused_dependencies(declared_deps, used)
        scanned == <<Effect("scan", "sources")>>
        asked == scanned \o <<Effect("prompt", "confirm")>>
    IN  IF unused = <<>>
        THEN Outcome(0, <<<<"All dependencies are being used!">>>>, <<>>, scanned, file, backup)
        ELSE IF dry_run
        THEN Outcome(0, <<<<"Dry-run mode: No changes will be made.">>>>, <<>>, scanned,
                     file, backup)
        ELSE IF ~confirm.ok
        THEN Outcome(1, <<>>, <<ErrorLine(confirm.error)>>, asked, file, backup)
        ELSE
        LET applied == apply_removals(Unwrap(file), unused, found)
            saved == save(applied.content, file, backup, copied, written)
        IN  IF saved.result.ok
            THEN Outcome(0, applied.out \o <<<<"Cargo.toml updated successfully!">>,
                                             <<"Backup saved as Cargo.toml.backup">>>>,
                         applied.err, asked \o saved.effects, saved.file, saved.backup)
            ELSE Outcome(1, applied.out, applied.err \o <<ErrorLine(saved.result.error)>>,
                         asked \o saved.effects, saved.file, saved.backup)

\* clean_command after the manifest is loaded
clean_rest(declared_deps, used, dry_run, confirm, found, copied, written, file, backup) ==
    LET unused == find_unused_dependencies(declared_deps, used)
        scanned == <<Effect("scan", "sources")>>
        asked == scanned \o <<Effect("prompt", "confirm")>>
    IN  IF unused = <<>>
        THEN Outcome(0, <<<<"All dependencies are being used!">>>>, <<>>, scanned, file, backup)
        ELSE IF dry_run
        THEN Outcome(0, <<<<"Dry-run mode: No changes will be made.">>>>, <<>>, scanned,
                     file, backup)
        ELSE IF ~confirm.ok
        THEN Outcome(1, <<>>, <<ErrorLine(confirm.error)>>, asked, file, backup)
        ELSE IF ~confirm.value
        THEN Outcome(0, <<<<"No changes made.">>>>, <<>>, asked, file, backup)
        ELSE
        LET applied == apply_removals(Unwrap(file), unused, found)
            saved == save(applied.content, file, backup, copied, written)
        IN  IF saved.result.ok
            THEN Outcome(0, applied.out \o <<<<"Cargo.toml updated successfully!">>,
                                             <<"Backup saved as Cargo.toml.backup">>>>,
                         applied.err, asked \o saved.effects, saved.file, saved.backup)
            ELSE Outcome(1, applied.out, applied.err \o <<ErrorLine(saved.result.error)>>,
                         asked \o saved.effects, saved.file, saved.backup)

----------------------------------------------------------------------------
(* Generated inputs *)

Nums == 0..MaxNum
PreSet == {<<>>, <<"a">>, <<"1">>, <<"a", ".", "1">>}
Versions == {Version(ma, mi, pa, pre) : ma \in Nums, mi \in Nums, pa \in Nums, pre \in PreSet}

\* all sequences over S of length at most n
SeqsUpTo(S, n) == UNION {[1..k -> S] : k \in 0..n}

\* components of generated requirement strings: small numbers and a two-digit one
CompNums == Nums \cup {10}
Str1(a) == NumStr(a)
Str2(a, b) == NumStr(a) \o <<".">> \o NumStr(b)
Str3(a, b, c) == NumStr(a) \o <<".">> \o NumStr(b) \o <<".">> \o NumStr(c)
ValidCores1 == {Str1(a) : a \in CompNums}
ValidCores2 == {Str2(a, b) : a \in CompNums, b \in CompNums}
ValidCores3 == {Str3(a, b, c) : a \in CompNums, b \in CompNums, c \in CompNums}
ValidCores == ValidCores1 \cup ValidCores2 \cup ValidCores3

\* remainders that are no version of one to three numeric components
OtherCores ==
    { <<>>, <<"x">>, <<"0", "1">>, <<"1", ".">>, <<".", "1">>,
      <<"1", ".", "0", "1">>, <<"1", ".", ".", "0">>,
      <<"1", ".", "0", ".", "0", ".", "0">>, <<"1", ".", "0", ".", "0", ".">>,
      <<"1", ".", "0", ".", "x">>, <<"1", ".", "0", ".", "0", "1">>,
      <<"1", ".", "0", ".", "0", "-", "a">>, <<"1", ".", "0", ".", "0", "-", "a", ".", "1">>,
      <<"1", ".", "0", "-", "a">>, <<"1", ".", "0", ".", "0", "-">>,
      <<"1", " ", ".", "0">>, <<"*">> }

\* blanks before the operators, between operators and version, and after it
Blank == {<<>>, <<" ">>}
Paddings == {<<<<>>, <<>>, <<>>>>, <<<<" ">>, <<>>, <<" ">>>>, <<<<>>, <<" ">>, <<>>>>}

ReqInputs ==
    { pad[1] \o ops \o pad[2] \o core \o pad[3] :
        pad \in Paddings, ops \in SeqsUpTo(OperatorSet, MaxOps),
        core \in ValidCores \cup OtherCores }

\* lines of a `cargo tree --duplicates --charset=ascii` listing
V100 == <<"1", ".", "0", ".", "0">>
V101 == <<"1", ".", "0", ".", "1">>
V090 == <<"0", ".", "9", ".", "0">>
TreeTee == <<"|", "-", "-", " ">>
TreeEll == <<Backquote, "-", "-", " ">>
PkgLine(name, version) == name \o <<" ", "v">> \o version

DupLines ==
    { PkgLine(<<"a">>, V100), PkgLine(<<"a">>, V101),
      PkgLine(<<"b">>, V100), PkgLine(<<"b">>, V101),
      TreeTee \o PkgLine(<<"v", "b">>, V100),
      TreeEll \o PkgLine(<<"v", "c">>, V101) \o <<" ", "(", "*", ")">>,
      <<>> }

Listings == SeqsUpTo(DupLines, MaxLines)

\* what the tool writes to stderr when it fails, as words
StderrTexts ==
    { <<"error:", "no", "Cargo.lock">>,
      <<"error:", "failed", "to", "parse", "lock", "file", "Cargo.lock">>,
      <<"error:", "failed", "to", "parse", "manifest">> }

ToolAnswer(spawned, success, stderr, stdout) ==
    [spawned |-> spawned, success |-> success, stderr |-> stderr, stdout |-> stdout]

\* answers of the first run (--duplicates)
ToolRuns ==
    {ToolAnswer(FALSE, FALSE, <<>>, <<>>)}
        \cup {ToolAnswer(TRUE, FALSE, e, <<>>) : e \in StderrTexts}
        \cup {ToolAnswer(TRUE, TRUE, <<>>, l) : l \in Listings}

\* answers of the second run (--prefix=none)
TotalRuns ==
    { ToolAnswer(FALSE, FALSE, <<>>, <<>>),
      ToolAnswer(TRUE, FALSE, <<"error:">>, <<>>),
      ToolAnswer(TRUE, TRUE, <<>>, <<PkgLine(<<"a">>, V100), <<>>, PkgLine(<<"b">>, V100)>>) }

\* version texts a duplicates listing may give for one package: releases, a
\* pre-release, one with build metadata, and texts that are no semantic version
VersionTexts ==
    { V100, V101,
      <<"2", ".", "0", ".", "0">>,
      <<"1", "0", ".", "0", ".", "0">>,
      <<"1", ".", "0", ".", "1", "-", "a">>,
      <<"1", ".", "0", ".", "1", "+", "b">>,
      <<"1", ".", "2">>,
      <<"0", "1", ".", "0", ".", "0">>,
      <<"b">> }

\* what suggest_version is called with: two or more distinct versions, in the
\* order the set of unique versions happens to iterate
ObservedLists ==
    {q \in SeqsUpTo(VersionTexts, MaxVersions) :
        Len(q) >= 2 /\ \A i \in 1..Len(q), j \in 1..Len(q) : i # j => q[i] # q[j]}

\* the flags of a command line; a flag a subcommand does not take is FALSE
Flags(dry_run, all, auto, json) ==
    [dry_run |-> dry_run, all |-> all, auto |-> auto, json |-> json]

CommandLines ==
    {<<"check", Flags(FALSE, FALSE, FALSE, FALSE)>>}
        \cup {<<"update", Flags(d, a, FALSE, FALSE)>> : d \in BOOLEAN, a \in BOOLEAN}
        \cup {<<"fix", Flags(FALSE, FALSE, a, FALSE)>> : a \in BOOLEAN}
        \cup {<<"clean", Flags(d, FALSE, FALSE, FALSE)>> : d \in BOOLEAN}
        \cup {<<"health", Flags(FALSE, FALSE, FALSE, j)>> : j \in BOOLEAN}

\* names of declared dependencies, in the order a generated manifest declares them
DepNames == <<"tokio", "serde", "clap", "rand", "anyhow">>

\* the ways a generated manifest declares a dependency
SpecChoices ==
    { Simple(V100),
      Simple(<<"x">>),
      Detailed(Some(V100), Some("https://github.com/x/y"), None),
      Detailed(None, None, Some("../y")),
      Detailed(None, None, None) }

DeclaredLists ==
    UNION {{[i \in 1..k |-> [name |-> DepNames[i], spec |-> choice[i]]] :
               choice \in [1..k -> SpecChoices]} : k \in 0..MaxDeps}

\* the files a command may find at the manifest path: one that cannot be
\* read, one that is not a manifest, one without a [dependencies] table, and
\* the generated manifests
ManifestFiles ==
    {UnreadableFile, MalformedFile, ManifestFile("manifest", FALSE, <<>>, <<>>)}
        \cup {ManifestFile("manifest", TRUE, deps, <<>>) : deps \in DeclaredLists}

\* what a backup file left by an earlier run of update or clean holds
OlderFile ==
    ManifestFile("manifest", TRUE, <<[name |-> DepNames[1], spec |-> Simple(V090)]>>, <<>>)

\* answers of the registry to one lookup
Responses ==
    { Response(FALSE, 0, None),
      Response(TRUE, 404, None),
      Response(TRUE, 200, None),
      Response(TRUE, 200, Some(<<"x">>)),
      Response(TRUE, 200, Some(<<"2", ".", "0", ".", "0">>)) }

\* answers of the terminal to a prompt
PromptFailure == <<"IO error: not a terminal">>
ConfirmAnswers == {Ok(TRUE), Ok(FALSE), Err(PromptFailure)}
SelectAnswers(n) == {Ok(picked) : picked \in SUBSET (1..n)} \cup {Err(PromptFailure)}

\* answers of `cargo tree --duplicates` to fix_command
FixRuns ==
    {ToolAnswer(FALSE, FALSE, <<>>, <<>>)}
        \cup {ToolAnswer(TRUE, FALSE, e, <<>>) : e \in StderrTexts}
        \cup {ToolAnswer(TRUE, TRUE, <<>>, l) :
                 l \in { <<>>,
                         <<PkgLine(<<"a">>, V100), PkgLine(<<"a">>, V101)>>,
                         <<TreeTee \o PkgLine(<<"v", "b">>, V100),
                           TreeEll \o PkgLine(<<"v", "c">>, V101)>> }}

\* names of dependencies in manifest text: one that is a prefix of another,
\* one that is a suffix of another, and one no generated manifest declares
Serde == <<"serde">>
SerdeJson == <<"serde", "_json">>
MySerde == <<"my-", "serde">>
Tokio == <<"tokio">>
UpdateNames == {Serde, SerdeJson, MySerde, Tokio}

\* name = "version"
SimpleLine(name, version) == name \o <<" ", "=", " ", Quote>> \o version \o <<Quote>>

\* the same with other spacing and a trailing comment
SpacedLine(name, version) ==
    <<" ", " ">> \o name \o <<" ", " ", "=", Quote>> \o version
        \o <<Quote, " ", "#", " ", "pinned">>

VersionKey(version) == <<"version", " ", "=", " ", Quote>> \o version \o <<Quote>>
FeaturesKey == <<"features", " ", "=", " ", "[", Quote, "derive", Quote, "]">>
DefaultFeaturesKey == <<"default-features", " ", "=", " ", "false">>
OptionalKey == <<"optional", " ", "=", " ", "true">>

\* name = { first, second } followed by a comment
TableLine(name, first, second) ==
    name \o <<" ", "=", " ", "{", " ">> \o first \o <<",", " ">> \o second
        \o <<" ", "}", " ", "#", " ", "keep">>

CommentLine == <<"#", " ">> \o SimpleLine(Serde, V090)
BlankLine == <<>>
Header(section) == <<"[", section, "]">>

\* lines a [dependencies] table is generated from
DeclLines ==
    { SimpleLine(Serde, V100), SpacedLine(Serde, V100),
      SimpleLine(SerdeJson, V100), SimpleLine(MySerde, V100),
      TableLine(Serde, VersionKey(V100), FeaturesKey),
      TableLine(Serde, FeaturesKey, VersionKey(V100)),
      TableLine(Serde, DefaultFeaturesKey, VersionKey(V100)),
      TableLine(Serde, OptionalKey, VersionKey(V100)),
      CommentLine, BlankLine }

\* the key a line assigns, if it is an assignment
KeyOf(line) ==
    LET t == TrimStartSet(line, Whitespace)
        eq == FirstIndex(t, "=")
    IN  IF t = <<>> \/ Head(t) \in {"#", "["} \/ eq = 0 THEN None
        ELSE Some(TrimEndSet(SubSeq(t, 1, eq - 1), Whitespace))

\* toml::from_str rejects a table that assigns one key twice
DistinctKeys(lines) ==
    \A i \in 1..Len(lines), j \in 1..Len(lines) :
        (i < j /\ KeyOf(lines[i]) # None) => KeyOf(lines[i]) # KeyOf(lines[j])

\* the [dependencies] tables of generated manifests
DeclTables == {t \in SeqsUpTo(DeclLines, MaxDecls) : t # <<>> /\ DistinctKeys(t)}

\* generated manifest texts: a [dependencies] table alone, followed by a
\* [dev-dependencies] table that names serde again, or preceded by one
ManifestTexts ==
    {<<Header("dependencies")>> \o t : t \in DeclTables}
        \cup {<<Header("dependencies")>> \o t
                  \o <<BlankLine, Header("dev-dependencies"),
                       TableLine(Serde, VersionKey(V090), FeaturesKey)>> : t \in DeclTables}
        \cup {<<Header("dev-dependencies"), SimpleLine(Serde, V090), BlankLine,
                Header("dependencies")>> \o t : t \in DeclTables}

\* versions update_dependency is asked to write
NewVersions == {V101}

----------------------------------------------------------------------------
(* Variables a specification does not use stay at these values *)

\* nothing has been asked
NoAnswers == [select |-> None, confirm |-> None, used |-> None]

IdleVersion ==
    /\ current_version = VersionNew(0, 0, 0)
    /\ latest_version = None
    /\ utype = None
    /\ hasUpdate = None

IdleParse ==
    /\ req = <<>>
    /\ parsed = None

IdleConflicts ==
    /\ toolRun = ToolAnswer(FALSE, FALSE, <<>>, <<>>)
    /\ totalRun = None
    /\ detected = None

IdleCmd ==
    /\ cmd = "none"
    /\ flags = Flags(FALSE, FALSE, FALSE, FALSE)
    /\ fsStart = [file |-> None, backup |-> None]
    /\ answered = NoAnswers
    /\ fsManifest = None
    /\ fsBackup = None
    /\ loadedManifest = None
    /\ pending = <<>>
    /\ results = <<>>
    /\ checked = None
    /\ lookups = <<>>
    /\ effectLog = <<>>
    /\ exitCode = None
    /\ outLines = <<>>
    /\ errLines = <<>>

IdleSuggest ==
    /\ observed = <<>>
    /\ suggested = None

IdleUpdater ==
    /\ original_content = <<>>
    /\ lastCall = [op |-> "none"]

\* the variables of a command that are not files
IdleRun ==
    /\ cmd = "none"
    /\ flags = Flags(FALSE, FALSE, FALSE, FALSE)
    /\ fsStart = [file |-> None, backup |-> None]
    /\ answered = NoAnswers
    /\ loadedManifest = None
    /\ pending = <<>>
    /\ results = <<>>
    /\ checked = None
    /\ lookups = <<>>
    /\ effectLog = <<>>
    /\ exitCode = None
    /\ outLines = <<>>
    /\ errLines = <<>>

IdleScan ==
    /\ scanInput = [files |-> <<>>, names |-> <<>>]
    /\ scanResult = None

IdleHealth ==
    /\ healthInput = [call |-> "none"]
    /\ affected = None
    /\ healthReport = None

updaterVars == <<original_content, lastCall>>
healthVars == <<healthInput, affected, healthReport>>
scanVars == <<scanInput, scanResult>>
runVars == <<cmd, flags, fsStart, answered, loadedManifest, pending, results, checked,
             lookups, effectLog,
             exitCode, outLines, errLines>>
suggestVars == <<observed, suggested>>
versionVars == <<current_version, latest_version, utype, hasUpdate>>
cmdVars == <<cmd, flags, fsManifest, fsBackup, fsStart, answered, loadedManifest, pending,
             results,
             checked, lookups, effectLog, exitCode, outLines, errLines>>
conflictVars == <<toolRun, totalRun, detected>>
parseVars == <<req, parsed>>

----------------------------------------------------------------------------
(* SpecVersion: a Dependency is built and classified *)

\* Dependency::new: no latest version yet
InitVersion ==
    /\ pc = "new"
    /\ current_version \in Versions
    /\ latest_version = None
    /\ utype = None
    /\ hasUpdate = None
    /\ IdleParse
    /\ IdleConflicts
    /\ IdleCmd
    /\ IdleSuggest
    /\ IdleUpdater
    /\ IdleScan
    /\ IdleHealth

\* Dependency::with_latest
WithLatest ==
    /\ pc = "new"
    /\ \E l \in Versions : latest_version' = Some(l)
    /\ pc' = "with_latest"
    /\ UNCHANGED <<current_version, utype, hasUpdate, parseVars, conflictVars, cmdVars, suggestVars, updaterVars, scanVars, healthVars>>

\* Dependency::update_type
UpdateType ==
    /\ pc \in {"new", "with_latest"}
    /\ utype' = Some(update_type(current_version, latest_version))
    /\ pc' = "classified"
    /\ UNCHANGED <<current_version, latest_version, hasUpdate, parseVars, conflictVars, cmdVars, suggestVars, updaterVars, scanVars, healthVars>>

\* Dependency::has_update
HasUpdate ==
    /\ pc = "classified"
    /\ hasUpdate' = Some(has_update(current_version, latest_version))
    /\ pc' = "asked"
    /\ UNCHANGED <<current_version, latest_version, utype, parseVars, conflictVars, cmdVars, suggestVars, updaterVars, scanVars, healthVars>>

NextVersion == WithLatest \/ UpdateType \/ HasUpdate

SpecVersion == InitVersion /\ [][NextVersion]_vars

----------------------------------------------------------------------------
(* SpecParse: parse_version_req is applied to a requirement string *)

InitParse ==
    /\ pc = "req"
    /\ req \in ReqInputs
    /\ parsed = None
    /\ IdleVersion
    /\ IdleConflicts
    /\ IdleCmd
    /\ IdleSuggest
    /\ IdleUpdater
    /\ IdleScan
    /\ IdleHealth

ParseVersionReq ==
    /\ pc = "req"
    /\ parsed' = Some(parse_version_req(req))
    /\ pc' = "parsed"
    /\ UNCHANGED <<req, versionVars, conflictVars, cmdVars, suggestVars, updaterVars, scanVars, healthVars>>

NextParse == ParseVersionReq

SpecParse == InitParse /\ [][NextParse]_vars

----------------------------------------------------------------------------
(* SpecConflicts: detect_conflicts runs the tool and builds a report *)

InitConflicts ==
    /\ pc = "detect"
    /\ toolRun \in ToolRuns
    /\ totalRun = None
    /\ detected = None
    /\ IdleVersion
    /\ IdleParse
    /\ IdleCmd
    /\ IdleSuggest
    /\ IdleUpdater
    /\ IdleScan
    /\ IdleHealth

DetectConflicts ==
    /\ pc = "detect"
    /\ \E ord \in MapOrders(toolRun.stdout), vord \in SetOrders(toolRun.stdout) :
          LET conflicts == parse_duplicates(toolRun.stdout, ord, vord)
          IN  \E second \in TotalRuns :
                /\ detected' = Some(detect_conflicts(toolRun, second, conflicts))
                /\ totalRun' = IF RunsTotal(toolRun) THEN Some(second) ELSE None
    /\ pc' = "detected"
    /\ UNCHANGED <<toolRun, versionVars, parseVars, cmdVars, suggestVars, updaterVars, scanVars, healthVars>>

NextConflicts == DetectConflicts

SpecConflicts == InitConflicts /\ [][NextConflicts]_vars

----------------------------------------------------------------------------
(* SpecCmd: main runs one subcommand on the file at the manifest path *)

InitCmd ==
    /\ pc = "start"
    /\ \E line \in CommandLines : cmd = line[1] /\ flags = line[2]
    /\ fsManifest \in {None} \cup {Some(f) : f \in ManifestFiles}
    /\ fsBackup \in {None, Some(OlderFile)}
    /\ fsStart = [file |-> fsManifest, backup |-> fsBackup]
    /\ answered = NoAnswers
    /\ loadedManifest = None
    /\ pending = <<>>
    /\ results = <<>>
    /\ checked = None
    /\ lookups = <<>>
    /\ effectLog = <<>>
    /\ exitCode = None
    /\ outLines = <<>>
    /\ errLines = <<>>
    /\ toolRun \in (IF cmd = "fix" THEN FixRuns ELSE {ToolAnswer(FALSE, FALSE, <<>>, <<>>)})
    /\ totalRun = None
    /\ detected = None
    /\ IdleVersion
    /\ IdleParse
    /\ IdleSuggest
    /\ IdleUpdater
    /\ IdleScan
    /\ IdleHealth

idleVars == <<versionVars, parseVars, conflictVars, suggestVars, updaterVars, scanVars, healthVars>>

\* the command ends as outcome says
Finish(outcome) ==
    /\ pc' = "done"
    /\ exitCode' = Some(outcome.exit)
    /\ outLines' = outLines \o outcome.out
    /\ errLines' = errLines \o outcome.err
    /\ effectLog' = effectLog \o outcome.effects
    /\ fsManifest' = outcome.file
    /\ fsBackup' = outcome.backup

\* health --json prints nothing but the report
Quiet == cmd = "health" /\ flags.json

\* every command: print the header, then Manifest::find(manifest_path)?
LoadManifest ==
    /\ pc = "start"
    /\ LET header == IF Quiet THEN <<>> ELSE <<<<"cargo-sane ", cmd>>>>
           loaded == from_path(fsManifest)
       IN  IF loaded.ok
           THEN /\ loadedManifest' = Some(loaded.value)
                /\ outLines' = header \o
                       (IF Quiet THEN <<>> ELSE <<<<"Manifest: ", loaded.value.path>>>>)
                /\ pc' = "loaded"
                /\ UNCHANGED <<errLines, exitCode>>
           ELSE /\ loadedManifest' = None
                /\ outLines' = header
                /\ errLines' = <<ErrorLine(loaded.error)>>
                /\ exitCode' = Some(1)
                /\ pc' = "done"
    /\ UNCHANGED <<cmd, flags, fsStart, answered, fsManifest, fsBackup, pending, results, checked, lookups,
                   effectLog, idleVars>>

ChecksDependencies == cmd \in {"check", "update", "health"}

\* check_dependencies up to its loop: manifest.get_dependencies(), the map
\* iterating in some order, and the early return for an empty list
GetDependencies ==
    /\ pc = "loaded" /\ ChecksDependencies
    /\ \E ord \in Perms(DeclaredNames(Unwrap(loadedManifest))) :
          LET deps == get_dependencies(Unwrap(loadedManifest), ord)
          IN  /\ pending' = deps
              /\ results' = <<>>
              /\ checked' = IF deps = <<>> THEN Some(<<>>) ELSE None
              /\ pc' = IF deps = <<>> THEN "checked" ELSE "checking"
    /\ UNCHANGED <<cmd, flags, fsStart, answered, fsManifest, fsBackup, loadedManifest, lookups, effectLog,
                   exitCode, outLines, errLines, idleVars>>

\* one turn of the loop of check_dependencies, the registry answering
\* response if it is asked; after the last turn the call returns Ok(results)
CheckOne ==
    /\ pc = "checking"
    /\ \E response \in Responses :
          LET dep == Head(pending)
              one == check_one(dep.name, dep.spec, response)
              last == Tail(pending) = <<>>
          IN  /\ lookups' = lookups \o
                     [i \in 1..Len(one.lookups) |->
                         [name |-> one.lookups[i], response |-> response]]
              /\ errLines' = errLines \o one.warnings
              /\ results' = results \o one.results
              /\ IF ~one.ok
                 THEN /\ pc' = "done"
                      /\ exitCode' = Some(1)
                      /\ UNCHANGED checked
                 ELSE /\ pc' = IF last THEN "checked" ELSE "checking"
                      /\ checked' = IF last THEN Some(results \o one.results) ELSE None
                      /\ UNCHANGED exitCode
    /\ pending' = Tail(pending)
    /\ UNCHANGED <<cmd, flags, fsStart, answered, fsManifest, fsBackup, loadedManifest, effectLog, outLines,
                   idleVars>>

cmdInputs == <<cmd, flags, fsStart, loadedManifest, pending, results, checked, lookups>>

\* check_command from the report on
CheckCommand ==
    /\ pc = "checked" /\ cmd = "check"
    /\ Finish(Outcome(0, check_report(Unwrap(checked)), <<>>, <<>>, fsManifest, fsBackup))
    /\ UNCHANGED <<cmdInputs, answered, idleVars>>

\* health_command from the report on
HealthCommand ==
    /\ pc = "checked" /\ cmd = "health"
    /\ Finish(Outcome(0, health_report(Unwrap(checked), flags.json), <<>>, <<>>,
                      fsManifest, fsBackup))
    /\ UNCHANGED <<cmdInputs, answered, idleVars>>

\* the answers a step draws from its surroundings when it asks, and the one
\* placeholder when it does not
Drawn(asks, answers, placeholder) == IF asks THEN answers ELSE {placeholder}

Agrees(answer) == answer.ok /\ answer.value

\* update_command from the filter on
UpdateCommand ==
    /\ pc = "checked" /\ cmd = "update"
    /\ LET updatable == SelectSeq(Unwrap(checked),
                           LAMBDA d : has_update(d.current_version, d.latest_version))
           names == {updatable[i].name : i \in 1..Len(updatable)}
           selects == updatable # <<>> /\ ~flags.all
           confirms == selects /\ ~flags.dry_run
       IN  \E select \in Drawn(selects, SelectAnswers(Len(updatable)), Ok({})),
              confirm \in Drawn(confirms, ConfirmAnswers, Ok(TRUE)) :
              LET saves == /\ updatable # <<>> /\ ~flags.dry_run
                           /\ select.ok /\ Agrees(confirm)
              IN  \E found \in Drawn(saves, [names -> BOOLEAN], [n \in names |-> TRUE]),
                     copied \in Drawn(saves, BOOLEAN, TRUE),
                     written \in Drawn(saves, WriteOutcomes, "written") :
                     /\ answered' = [select |-> Some(select), confirm |-> Some(confirm),
                                     used |-> None]
                     /\ Finish(update_rest(Unwrap(checked), flags.dry_run, flags.all,
                                           select, confirm, found, copied, written,
                                           fsManifest, fsBackup))
    /\ UNCHANGED <<cmdInputs, idleVars>>

\* fix_command from detect_conflicts on; toolRun is what the first run of
\* `cargo tree` answers
FixCommand ==
    /\ pc = "loaded" /\ cmd = "fix"
    /\ \E second \in TotalRuns :
          \E ord \in MapOrders(toolRun.stdout), vord \in SetOrders(toolRun.stdout),
             confirm \in Drawn(~flags.auto, ConfirmAnswers, Ok(TRUE)) :
             LET report == detect_conflicts(toolRun, second,
                                            parse_duplicates(toolRun.stdout, ord, vord))
             IN  /\ answered' = [select |-> None, confirm |-> Some(confirm), used |-> None]
                 /\ detected' = Some(report)
                 /\ totalRun' = IF RunsTotal(toolRun) THEN Some(second) ELSE None
                 /\ Finish(fix_rest(toolRun, report, flags.auto, confirm,
                                    fsManifest, fsBackup))
    /\ UNCHANGED <<cmdInputs, toolRun, versionVars, parseVars, suggestVars, updaterVars, scanVars, healthVars>>

\* clean_command from the scan on; used is what the scan finds in the sources
CleanCommand ==
    /\ pc = "loaded" /\ cmd = "clean"
    /\ LET names == DeclaredNames(Unwrap(loadedManifest))
       IN  \E ord \in Perms(names), used \in SUBSET names :
              LET asks == used # names /\ ~flags.dry_run
              IN  \E confirm \in Drawn(asks, ConfirmAnswers, Ok(TRUE)) :
                     LET saves == asks /\ Agrees(confirm)
                         unused == names \ used
                     IN  \E found \in Drawn(saves, [unused -> BOOLEAN],
                                             [n \in unused |-> TRUE]),
                            copied \in Drawn(saves, BOOLEAN, TRUE),
                            written \in Drawn(saves, WriteOutcomes, "written") :
                            /\ answered' = [select |-> None, confirm |-> Some(confirm),
                                            used |-> Some(used)]
                            /\ Finish(clean_rest(
                                      get_dependencies(Unwrap(loadedManifest), ord),
                                      used, flags.dry_run, confirm, found, copied,
                                      written, fsManifest, fsBackup))
    /\ UNCHANGED <<cmdInputs, idleVars>>

NextCmd ==
    \/ LoadManifest
    \/ GetDependencies
    \/ CheckOne
    \/ CheckCommand
    \/ HealthCommand
    \/ UpdateCommand
    \/ FixCommand
    \/ CleanCommand

SpecCmd == InitCmd /\ [][NextCmd]_vars

----------------------------------------------------------------------------
(* SpecSuggest: suggest_version is applied to a conflict's versions *)

InitSuggest ==
    /\ pc = "observed"
    /\ observed \in ObservedLists
    /\ suggested = None
    /\ IdleVersion
    /\ IdleParse
    /\ IdleConflicts
    /\ IdleCmd
    /\ IdleUpdater
    /\ IdleScan
    /\ IdleHealth

SuggestVersion ==
    /\ pc = "observed"
    /\ suggested' = Some(suggest_version(observed))
    /\ pc' = "suggested"
    /\ UNCHANGED <<observed, versionVars, parseVars, conflictVars, cmdVars, updaterVars, scanVars, healthVars>>

NextSuggest == SuggestVersion

SpecSuggest == InitSuggest /\ [][NextSuggest]_vars

----------------------------------------------------------------------------
(* SpecEdit: update_dependency is applied to the text of a manifest *)

InitEdit ==
    /\ pc = "new"
    /\ original_content \in ManifestTexts
    /\ lastCall = [op |-> "none"]
    /\ IdleVersion
    /\ IdleParse
    /\ IdleConflicts
    /\ IdleCmd
    /\ IdleSuggest
    /\ IdleScan
    /\ IdleHealth

\* one call of update_dependency on the updater
UpdateDependency ==
    /\ \E dep_name \in UpdateNames, new_version \in NewVersions :
          LET r == update_dependency_text(original_content, dep_name, new_version)
          IN  /\ original_content' = IF r.ok THEN r.value ELSE original_content
              /\ lastCall' = [op |-> "update_dependency", name |-> dep_name,
                              version |-> new_version, before |-> original_content,
                              result |-> IF r.ok THEN Ok(TRUE) ELSE r]
    /\ pc' = "updated"
    /\ UNCHANGED <<fsManifest, fsBackup, runVars, versionVars, parseVars, conflictVars,
                   suggestVars, scanVars, healthVars>>

NextEdit == UpdateDependency

SpecEdit == InitEdit /\ [][NextEdit]_vars

----------------------------------------------------------------------------
(* SpecUpdater: a DependencyUpdater edits its text and saves it *)

\* manifest texts of simple declarations
UpdaterTexts ==
    {<<Header("dependencies")>> \o t :
        t \in {d \in DeclTables :
                 \A i \in 1..Len(d) :
                    d[i] \in {SimpleLine(Serde, V100), SimpleLine(SerdeJson, V100)}}}

\* what a backup file left by an earlier run holds
OlderText == <<Header("dependencies"), SimpleLine(Serde, V090)>>

\* DependencyUpdater::new has read the file at the manifest path
InitUpdater ==
    /\ pc = "new"
    /\ original_content \in UpdaterTexts
    /\ fsManifest = Some(TextFile(original_content))
    /\ fsBackup \in {None, Some(TextFile(OlderText))}
    /\ lastCall = [op |-> "none"]
    /\ IdleRun
    /\ IdleVersion
    /\ IdleParse
    /\ IdleConflicts
    /\ IdleSuggest
    /\ IdleScan
    /\ IdleHealth

\* one call of save on the updater; the file system decides whether the copy
\* and the write succeed
Save ==
    /\ \E copied \in BOOLEAN, written \in WriteOutcomes :
             LET s == save(TextFile(original_content), fsManifest, fsBackup, copied, written)
             IN  /\ fsManifest' = s.file
                 /\ fsBackup' = s.backup
                 /\ lastCall' = [op |-> "save", content |-> original_content,
                                 file_before |-> fsManifest, backup_before |-> fsBackup,
                                 result |-> s.result, effects |-> s.effects]
    /\ pc' = "saved"
    /\ UNCHANGED <<original_content, runVars, versionVars, parseVars, conflictVars,
                   suggestVars, scanVars, healthVars>>

NextUpdater == UpdateDependency \/ Save

SpecUpdater == InitUpdater /\ [][NextUpdater]_vars

----------------------------------------------------------------------------

(* SpecScan: the usage analyzer scans the sources of a project *)

\* names as the manifest and the sources spell them
LeftPad == <<"left", "-", "pad">>
LeftPadIdent == <<"left", "_", "pad">>
MixedName == <<"my", "-", "serde", "_", "json">>
MixedIdent == <<"my", "_", "serde", "_", "json">>

\* statements of a source file, each a line
UseItem(n) == <<"use", " ">> \o n \o <<"::", "item", ";", LineEnd>>
UseCrate(n) == <<"use", " ">> \o n \o <<";", LineEnd>>
UseAs(n) == <<"use", " ">> \o n \o <<" ", "as", " ", "alias", ";", LineEnd>>
PubUse(n) == <<"pub", " ">> \o UseItem(n)
Indented(stmt) == <<" ">> \o stmt
ExternCrate(n) == <<"extern", " ", "crate", " ">> \o n \o <<";", LineEnd>>
MacroUseExtern(n) == MacroUse \o <<LineEnd>> \o Indented(ExternCrate(n))
PathCall(n) == <<" ", "let", " ", "v", " ", "=", " ">> \o n \o <<"::", "call", "(", ")", ";", LineEnd>>
MacroCall == <<" ", "println", "!", "(", ")", ";", LineEnd>>

Statements ==
    {UseItem(Serde), UseCrate(Serde), UseAs(Serde), PubUse(Serde), Indented(UseItem(Serde)),
     Indented(UseCrate(Serde)), MacroUseExtern(Serde), PathCall(Serde),
     UseItem(Tokio), UseCrate(Tokio), ExternCrate(LeftPadIdent), UseItem(LeftPadIdent),
     UseItem(MixedIdent), MacroCall}

\* the concatenation of a sequence of texts
RECURSIVE Concat(_)
Concat(texts) == IF texts = <<>> THEN <<>> ELSE Head(texts) \o Concat(Tail(texts))

SourceTexts == {Concat(q) : q \in SeqsUpTo(Statements, MaxStmts)}

\* projects: one scanned file, or files the scan leaves out or cannot read
SourceTrees ==
    {<<SourceFile("src", "rs", Some(t))>> : t \in SourceTexts}
    \cup {<<SourceFile("tests", "rs", Some(UseItem(Serde))),
            SourceFile("examples", "rs", Some(UseCrate(Tokio)))>>,
          <<SourceFile("benches", "rs", Some(UseItem(Serde)))>>,
          <<SourceFile("src", "txt", Some(UseItem(Serde)))>>,
          <<SourceFile("src", "rs", None)>>}

\* the declared names, in the order get_dependencies hands them over
DeclaredNameLists ==
    {<<Serde, Tokio, LeftPad>>, <<LeftPad, Serde>>, <<MixedName, Serde>>, <<LeftPadIdent>>, <<>>}

InitScan ==
    /\ pc = "new"
    /\ scanInput \in [files : SourceTrees, names : DeclaredNameLists]
    /\ scanResult = None
    /\ IdleVersion
    /\ IdleParse
    /\ IdleConflicts
    /\ IdleCmd
    /\ IdleSuggest
    /\ IdleUpdater
    /\ IdleHealth

\* find_used_dependencies and find_unused_dependencies on the project
FindUnused ==
    /\ pc = "new"
    /\ scanResult' = Some([used |-> find_used_dependencies(scanInput.files),
                           unused |-> find_unused_dependencies_text(scanInput.names,
                                                                    scanInput.files)])
    /\ pc' = "scanned"
    /\ UNCHANGED <<scanInput, versionVars, parseVars, conflictVars, cmdVars, suggestVars,
                   updaterVars, healthVars>>

NextScan == FindUnused

SpecScan == InitScan /\ [][NextScan]_vars

----------------------------------------------------------------------------

(* SpecHealth: the health checker is asked about a version, or about dependencies *)

\* versions around the bounds of the registered advisories
V0149 == VersionNew(0, 14, 9)
V01410 == VersionNew(0, 14, 10)
V172 == VersionNew(1, 7, 2)
V180 == VersionNew(1, 8, 0)
V1185 == VersionNew(1, 18, 5)
V1185Pre == Version(1, 18, 5, <<"a">>)
HealthVersions == {V0149, V01410, V172, V180, V1185, V1185Pre}

\* a clause of a range as it is written: operator, blank or none, bound
Clause(op, spaced, bound) == [op |-> op, spaced |-> spaced, bound |-> bound]
ClauseText(c) == c.op \o (IF c.spaced THEN <<" ">> ELSE <<>>) \o c.bound

\* clauses of the four comparisons, and clauses the loop passes over
Clauses ==
    {Clause(op, TRUE, VersionToString(b)) :
        op \in {<<"<">>, <<"<", "=">>, <<">", "=">>, <<">">>}, b \in {V180, V1185}}
    \cup {Clause(<<"=">>, TRUE, VersionToString(V180)),
          Clause(<<"<">>, TRUE, <<"1", ".", "8">>),
          Clause(<<"<">>, FALSE, VersionToString(V180))}

\* the clauses joined by ", "
RECURSIVE RangeText(_)
RangeText(clauses) ==
    IF clauses = <<>> THEN <<>>
    ELSE IF Len(clauses) = 1 THEN ClauseText(clauses[1])
    ELSE ClauseText(clauses[1]) \o <<",", " ">> \o RangeText(Tail(clauses))

Ranges == SeqsUpTo(Clauses, MaxClauses) \ {<<>>}

\* the dependencies check_dependencies hands to check_health
HealthNames == {"tokio", "hyper", "serde"}
HealthDeps ==
    {Dependency(n, v, l) : n \in HealthNames, v \in HealthVersions,
                           l \in {None, Some(VersionNew(2, 0, 0))}}
HealthDepLists ==
    {q \in SeqsUpTo(HealthDeps, MaxDeps) :
        \A i \in 1..Len(q), j \in 1..Len(q) : q[i].name = q[j].name => i = j}

HealthInput(call, version, clauses, dependencies) ==
    [call |-> call, version |-> version, clauses |-> clauses,
     affected_spec |-> RangeText(clauses), dependencies |-> dependencies]

InitHealth ==
    /\ pc = "new"
    /\ healthInput \in
         {HealthInput("is_version_affected", v, r, <<>>) : v \in HealthVersions, r \in Ranges}
         \cup {HealthInput("check_health", V180, <<>>, d) : d \in HealthDepLists}
    /\ affected = None
    /\ healthReport = None
    /\ IdleVersion
    /\ IdleParse
    /\ IdleConflicts
    /\ IdleCmd
    /\ IdleSuggest
    /\ IdleUpdater
    /\ IdleScan

IsVersionAffected ==
    /\ pc = "new"
    /\ healthInput.call = "is_version_affected"
    /\ affected' = Some(is_version_affected(healthInput.version, healthInput.affected_spec))
    /\ pc' = "asked"
    /\ UNCHANGED <<healthInput, healthReport, versionVars, parseVars, conflictVars, cmdVars,
                   suggestVars, updaterVars, scanVars>>

CheckHealth ==
    /\ pc = "new"
    /\ healthInput.call = "check_health"
    /\ healthReport' = Some(check_health(healthInput.dependencies))
    /\ pc' = "checked"
    /\ UNCHANGED <<healthInput, affected, versionVars, parseVars, conflictVars, cmdVars,
                   suggestVars, updaterVars, scanVars>>

NextHealth == IsVersionAffected \/ CheckHealth

SpecHealth == InitHealth /\ [][NextHealth]_vars

----------------------------------------------------------------------------

(* Claims about update classification (checked under SpecVersion) *)

\* the total order of versions as the specification words it: (major, minor,
\* patch) compared lexicographically, a pre-release before its release
SpecLeq(a, b) ==
    \/ a.major < b.major
    \/ a.major = b.major /\ a.minor < b.minor
    \/ a.major = b.major /\ a.minor = b.minor /\ a.patch < b.patch
    \/ /\ a.major = b.major /\ a.minor = b.minor /\ a.patch = b.patch
       /\ (a.pre = b.pre \/ (a.pre # <<>> /\ (b.pre = <<>> \/ PreCmp(a.pre, b.pre) < 0)))

\* the ordered rule of the specification
ClassifyRule(cur, latest) ==
    CASE latest = None -> "UpToDate"
      [] latest # None /\ SpecLeq(Unwrap(latest), cur) -> "UpToDate"
      [] latest # None /\ ~SpecLeq(Unwrap(latest), cur)
            /\ Unwrap(latest).major > cur.major -> "Major"
      [] latest # None /\ ~SpecLeq(Unwrap(latest), cur)
            /\ ~(Unwrap(latest).major > cur.major)
            /\ Unwrap(latest).minor > cur.minor -> "Minor"
      [] OTHER -> "Patch"

----------------------------------------------------------------------------
(* Claims about parse_version_req (checked under SpecParse) *)

\* the version each canonical string of one, two or three numbers stands for:
\* "N" for (N,0,0), "N.M" for (N,M,0), "N.M.P" for (N,M,P)
CoreTable ==
    {<<Str1(a), VersionNew(a, 0, 0)>> : a \in CompNums}
        \cup {<<Str2(a, b), VersionNew(a, b, 0)>> : a \in CompNums, b \in CompNums}
        \cup {<<Str3(a, b, c), VersionNew(a, b, c)>> : a \in CompNums, b \in CompNums, c \in CompNums}
CoreVersion(v) == (CHOOSE p \in CoreTable : p[1] = v)[2]

\* C2: "N" yields (N,0,0), "N.M" yields (N,M,0) and "N.M.P" yields (N,M,P);
\* a remainder of three or more components that does not parse directly
\* yields None, never a padded or truncated version.
C2_PadAndExact ==
    pc = "parsed" =>
      /\ req \in ValidCores => Unwrap(parsed) = Some(CoreVersion(req))
      /\ (Len(Split(CleanReq(req), ".")) >= 3 /\ ParseVersion(CleanReq(req)) = None
            => Unwrap(parsed) = None)

C2_Witness ==
    /\ pc = "parsed"
    /\ req = <<"2", ".", "1", "0">>
    /\ parsed = Some(Some(VersionNew(2, 10, 0)))

\* C3: for one operator character op of ^ ~ = > < and a valid version string V
\* of one, two or three components, parse_version_req(op + V) is
\* parse_version_req(V), a version.
C3_OperatorStripping ==
    (pc = "parsed" /\ Len(req) >= 1 /\ req[1] \in OperatorSet /\ Tail(req) \in ValidCores) =>
        /\ Unwrap(parsed) = parse_version_req(Tail(req))
        /\ Unwrap(parsed) = Some(CoreVersion(Tail(req)))

C3_Witness ==
    /\ pc = "parsed"
    /\ req = <<"<", "1", ".", "2">>
    /\ parsed = Some(Some(VersionNew(1, 2, 0)))

\* two operator characters in front of a canonical three-component version
TwoOperators ==
    /\ pc = "parsed"
    /\ Len(req) >= 2
    /\ req[1] \in OperatorSet
    /\ req[2] \in OperatorSet
    /\ SubSeq(req, 3, Len(req)) \in ValidCores3

----------------------------------------------------------------------------
(* Claims about suggest_version (checked under SpecSuggest) *)

\* what each generated version text is as a semantic version, if it is one
SemverTable ==
    { <<V100, Some(VersionFull(1, 0, 0, <<>>, <<>>))>>,
      <<V101, Some(VersionFull(1, 0, 1, <<>>, <<>>))>>,
      <<(<<"2", ".", "0", ".", "0">>), Some(VersionFull(2, 0, 0, <<>>, <<>>))>>,
      <<(<<"1", "0", ".", "0", ".", "0">>), Some(VersionFull(10, 0, 0, <<>>, <<>>))>>,
      <<(<<"1", ".", "0", ".", "1", "-", "a">>), Some(VersionFull(1, 0, 1, <<"a">>, <<>>))>>,
      <<(<<"1", ".", "0", ".", "1", "+", "b">>), Some(VersionFull(1, 0, 1, <<>>, <<"b">>))>>,
      <<(<<"1", ".", "2">>), None>>,
      <<(<<"0", "1", ".", "0", ".", "0">>), None>>,
      <<(<<"b">>), None>> }
Semver(text) == (CHOOSE p \in SemverTable : p[1] = text)[2]

\* a comes strictly after b in semantic-version order
SemverGreater(a, b) == SpecLeq(b, a) /\ ~SpecLeq(a, b)

\* C11: suggest_version returns None iff no observed version is a valid
\* semantic version; otherwise it returns one of the observed versions, one
\* that is valid and that no valid observed version exceeds in
\* semantic-version order.
C11_SuggestGreatest ==
    pc = "suggested" =>
       LET valid == {i \in 1..Len(observed) : Semver(observed[i]) # None}
           answer == Unwrap(suggested)
       IN  /\ answer = None <=> valid = {}
           /\ answer # None =>
                 \E i \in valid :
                    /\ observed[i] = Unwrap(answer)
                    /\ \A j \in valid :
                          ~SemverGreater(Unwrap(Semver(observed[j])),
                                         Unwrap(Semver(observed[i])))

C11_Witness ==
    /\ pc = "suggested"
    /\ observed = << <<"1", "0", ".", "0", ".", "0">>, <<"b">>, <<"2", ".", "0", ".", "0">> >>
    /\ suggested = Some(Some(<<"1", "0", ".", "0", ".", "0">>))

----------------------------------------------------------------------------
(* Claims about manifest loading and the dependency check (checked under SpecCmd) *)

\* the words of phrase occur in text, next to each other and in order
ContainsWords(text, phrase) ==
    \E i \in 0..(Len(text) - Len(phrase)) :
       \A k \in 1..Len(phrase) : text[i + k] = phrase[k]

\* nothing has been done beyond printing: no manifest loaded, no dependency
\* visited, no lookup, no prompt, tool run, scan, copy or write, no backup
NothingDone ==
    /\ loadedManifest = None
    /\ pending = <<>> /\ results = <<>> /\ checked = None
    /\ lookups = <<>>
    /\ effectLog = <<>>
    /\ fsManifest = fsStart.file
    /\ fsBackup = fsStart.backup

\* C5: when no file exists at the manifest path, loading fails with an error
\* whose message contains the path and the words "not found"; each of check,
\* update, fix, clean and health then stops before doing anything else, exits
\* with a non-zero status and writes no file.
C5_MissingManifestStops ==
    fsManifest = None =>
      /\ pc \in {"start", "done"}
      /\ NothingDone
      /\ pc = "done" =>
            /\ exitCode # None /\ Unwrap(exitCode) # 0
            /\ Len(errLines) = 1
            /\ ContainsWords(errLines[1], <<"not", "found">>)
            /\ ContainsWords(errLines[1], <<ManifestPath>>)

C5_Witness ==
    /\ fsManifest = None /\ pc = "done" /\ cmd = "update" /\ ~flags.dry_run /\ flags.all
    /\ exitCode = Some(1)

\* the dependencies the loaded manifest declares and the spec of each
Declared == IF loadedManifest = None THEN {} ELSE DeclaredNames(Unwrap(loadedManifest))
SpecOf(n) == Unwrap(Unwrap(loadedManifest).content.dependencies)[n]

\* a spec carries a git or a path marker
HasSourceMarker(spec) ==
    spec.kind = "Detailed" /\ (spec.git # None \/ spec.path # None)

LookedUp == {lookups[i].name : i \in 1..Len(lookups)}
Reported == {results[i].name : i \in 1..Len(results)}

\* C6: a dependency is looked up in the registry only if its spec carries
\* neither a git nor a path marker, whether or not it has a version field; a
\* git- or path-sourced dependency is never looked up and never appears in the
\* returned list, even when it also declares a version.
C6_LookupOnlyWithoutMarker ==
    \A n \in Declared :
       /\ is_crates_io(SpecOf(n)) <=> ~HasSourceMarker(SpecOf(n))
       /\ n \in LookedUp => ~HasSourceMarker(SpecOf(n))
       /\ HasSourceMarker(SpecOf(n)) => n \notin LookedUp /\ n \notin Reported

C6_Witness ==
    /\ pc = "checked" /\ checked # None
    /\ \E n \in Declared, m \in Declared :
          /\ SpecOf(n).kind = "Detailed" /\ SpecOf(n).git # None /\ SpecOf(n).version # None
          /\ n \notin LookedUp /\ n \notin Reported
          /\ m \in LookedUp /\ m \in Reported

\* the version a generated text stands for: the manifests and the registry's
\* answers carry "1.0.0", "2.0.0" or a text that is no version
KnownVersion(text) ==
    IF text = <<"1", ".", "0", ".", "0">> THEN Some(VersionNew(1, 0, 0))
    ELSE IF text = <<"2", ".", "0", ".", "0">> THEN Some(VersionNew(2, 0, 0))
    ELSE None

\* the lookup failed or returned non-2xx
LookupFailed(response) ==
    ~response.sent \/ response.status < 200 \/ response.status > 299

\* the lookup returned the version v
LookupGave(response, v) ==
    /\ response.sent /\ response.status = 200
    /\ response.newest # None /\ KnownVersion(Unwrap(response.newest)) = Some(v)

\* the dependency n is reported once, with its current version, and with the
\* latest version its own lookup gave, or with none if that lookup failed
ReportedFromOwnLookup(n, current) ==
    /\ Cardinality({i \in 1..Len(lookups) : lookups[i].name = n}) = 1
    /\ Cardinality({i \in 1..Len(results) : results[i].name = n}) = 1
    /\ \A i \in 1..Len(lookups), j \in 1..Len(results) :
          (lookups[i].name = n /\ results[j].name = n) =>
             /\ results[j].current_version = current
             /\ LookupFailed(lookups[i].response) =>
                   /\ results[j].latest_version = None
                   /\ update_type(results[j].current_version,
                                  results[j].latest_version) = "UpToDate"
             /\ \A v \in {VersionNew(2, 0, 0)} :
                   LookupGave(lookups[i].response, v) =>
                      results[j].latest_version = Some(v)

\* C7: a dependency that fails never aborts check_dependencies: the call
\* returns Ok; a dependency whose version cannot be parsed is skipped (no
\* lookup, no entry); one whose lookup fails or returns non-2xx is reported
\* with no latest version (hence UpToDate); and every eligible dependency has
\* the entry its own version and lookup give, whatever happened to the others.
C7_FailureNeverAborts ==
    /\ (ChecksDependencies /\ loadedManifest # None /\ pc = "done") => checked # None
    /\ checked # None =>
          /\ checked = Some(results)
          /\ \A n \in Declared :
                (~HasSourceMarker(SpecOf(n)) /\ SpecOf(n).version # None) =>
                   IF KnownVersion(Unwrap(SpecOf(n).version)) = None
                   THEN n \notin LookedUp /\ n \notin Reported
                   ELSE ReportedFromOwnLookup(n,
                            Unwrap(KnownVersion(Unwrap(SpecOf(n).version))))

C7_Witness ==
    /\ pc = "checked" /\ checked # None
    /\ Len(lookups) = 2 /\ Len(results) = 2
    /\ lookups[1].response.sent /\ lookups[1].response.status = 404
    /\ results[1].latest_version = None
    /\ results[2].latest_version = Some(VersionNew(2, 0, 0))

\* the place of a name in the manifest file's declarations
DeclIndex(n) ==
    CHOOSE i \in 1..Len(Unwrap(fsManifest).deps) : Unwrap(fsManifest).deps[i].name = n

\* names are in the order of their declaration
InDeclarationOrder(names) ==
    \A i \in 1..Len(names), j \in 1..Len(names) :
       i < j => DeclIndex(names[i]) < DeclIndex(names[j])

NamesIn(q) == [i \in 1..Len(q) |-> q[i].name]

\* C8: get_dependencies returns the dependencies, check_dependencies looks
\* them up, and the result lists them, in the order in which the manifest
\* declares them.
C8_DeclarationOrder ==
    pc \in {"checking", "checked"} =>
       /\ InDeclarationOrder(NamesIn(pending))
       /\ InDeclarationOrder(NamesIn(lookups))
       /\ InDeclarationOrder(NamesIn(results))

----------------------------------------------------------------------------
(* Claims about conflict detection (checked under SpecConflicts) *)

\* the package and version a listing line names, as the specification reads
\* it: leading tree-drawing characters and blanks are stripped from the line,
\* and what is left has the form <name> v<version>
ListedEntry(rawLine) ==
    LET parts == SplitWhitespace(TrimStartSet(rawLine, TreeChars))
    IN  IF Len(parts) >= 2 /\ parts[2] # <<>> /\ Head(parts[2]) = "v"
        THEN Some([name |-> parts[1], version |-> Tail(parts[2])])
        ELSE None

ListedEntries(listing) ==
    {Unwrap(ListedEntry(listing[i])) : i \in {k \in 1..Len(listing) : ListedEntry(listing[k]) # None}}
ListedNames(listing) == {e.name : e \in ListedEntries(listing)}
ListedVersions(listing, name) == {e.version : e \in {x \in ListedEntries(listing) : x.name = name}}

\* detect_conflicts returned a report built from a listing
ReportFromListing ==
    /\ pc = "detected"
    /\ toolRun.spawned /\ toolRun.success
    /\ Unwrap(detected).ok

ReportedConflicts == Unwrap(detected).value.conflicts

\* C9: a package is reported as a Conflict iff the lines of the listing for
\* that package carry more than one distinct version string, and every
\* reported Conflict lists at least two versions, pairwise distinct, each
\* observed in the listing for that package.
C9_ConflictIffDistinctVersions ==
    ReportFromListing =>
      LET cs == ReportedConflicts
          reported == {cs[i].package_name : i \in 1..Len(cs)}
      IN  /\ \A n \in ListedNames(toolRun.stdout) \cup reported :
                n \in reported <=> Cardinality(ListedVersions(toolRun.stdout, n)) > 1
          /\ \A i \in 1..Len(cs) :
                /\ Len(cs[i].versions) >= 2
                /\ \A j \in 1..Len(cs[i].versions), k \in 1..Len(cs[i].versions) :
                      j # k => cs[i].versions[j] # cs[i].versions[k]
                /\ \A j \in 1..Len(cs[i].versions) :
                      cs[i].versions[j] \in ListedVersions(toolRun.stdout, cs[i].package_name)

\* C10: the conflicts of every report are in strictly ascending order of
\* package_name, whatever the order of the lines, and has_conflicts is true
\* iff the list is not empty.
C10_SortedByName ==
    (pc = "detected" /\ Unwrap(detected).ok) =>
      LET r == Unwrap(detected).value
      IN  /\ \A i \in 1..Len(r.conflicts), j \in 1..Len(r.conflicts) :
                i < j => StrCmp(r.conflicts[i].package_name, r.conflicts[j].package_name) < 0
          /\ r.has_conflicts <=> Len(r.conflicts) > 0

C10_Witness ==
    /\ ReportFromListing
    /\ Len(toolRun.stdout) = 4
    /\ toolRun.stdout[1] = PkgLine(<<"b">>, V100)
    /\ Len(ReportedConflicts) = 2
    /\ ReportedConflicts[1].package_name = <<"a">>
    /\ ReportedConflicts[2].package_name = <<"b">>
    /\ Unwrap(detected).value.has_conflicts


-----------------------------------------------------------------------------
(* Claims about the fix workflow and a failing tool (checked under SpecCmd) *)

\* why a run of `cargo tree` ended as it did, read off the answer: the tool
\* could not be started, it reported that the project has no lock file, it
\* reported another fault (here: a lock file that does not parse, a manifest
\* that does not parse), or it succeeded
FailureCause(run) ==
    IF ~run.spawned THEN "cannot start"
    ELSE IF run.success THEN "none"
    ELSE IF run.stderr = <<"error:", "no", "Cargo.lock">> THEN "no lock file"
    ELSE "other fault"

\* the fix workflow has ended, and detect_conflicts ran in it
FixEnded == cmd = "fix" /\ pc = "done" /\ IsSome(detected)

Printed(line) == \E i \in 1..Len(outLines) : outLines[i] = line

\* C12: when the duplicates listing fails because the project has no lock
\* file yet, detect_conflicts returns Ok with an empty report (no conflicts,
\* total_packages = 0, has_conflicts = false), and the fix workflow exits
\* successfully, reporting that there are no conflicts.
C12_NoLockFileIsNoConflict ==
    (FixEnded /\ FailureCause(toolRun) = "no lock file") =>
      /\ detected = Some(Ok([conflicts |-> <<>>, total_packages |-> 0,
                             has_conflicts |-> FALSE]))
      /\ exitCode = Some(0)
      /\ Printed(<<"No version conflicts detected!">>)
      /\ errLines = <<>>

C12_Witness ==
    /\ FixEnded
    /\ FailureCause(toolRun) = "no lock file"
    /\ Unwrap(detected).ok
    /\ exitCode = Some(0)


\* a run of `cargo tree` failed for a reason that is not the absence of a
\* lock file
FailedOtherwise(run) == FailureCause(run) \in {"cannot start", "other fault"}

\* C13: when the tool fails for any reason other than the absence of a lock
\* file (it cannot be started, it rejects the manifest, an existing lock file
\* is corrupt), in the duplicates listing or in the total count,
\* detect_conflicts returns an error and the fix workflow fails; it never
\* returns a report with zero conflicts.
C13_OtherFailureIsError ==
    (FixEnded /\ (FailedOtherwise(toolRun)
                    \/ (IsSome(totalRun) /\ FailedOtherwise(Unwrap(totalRun))))) =>
      /\ ~Unwrap(detected).ok
      /\ exitCode = Some(1)


-----------------------------------------------------------------------------
(* Claims about update_dependency on manifest text (checked under SpecEdit) *)

\* the table a line of a manifest lies in: the name in the last header at or
\* before it
RECURSIVE SectionOf(_, _)
SectionOf(text, k) ==
    IF k = 0 THEN "none"
    ELSE IF text[k] # <<>> /\ Head(text[k]) = "[" THEN text[k][2]
    ELSE SectionOf(text, k - 1)

\* what a line assigns to its key
ValueOf(line) == TrimStartSet(SubSeq(line, FirstIndex(line, "=") + 1, Len(line)), Whitespace)

\* the line declares the dependency name in simple form: name = "old"
IsSimpleDecl(line, name) ==
    /\ KeyOf(line) = Some(name)
    /\ ValueOf(line) # <<>>
    /\ Head(ValueOf(line)) = Quote

\* the line declares the dependency name as an inline table with a version
\* key that holds a quoted string
IsTableDecl(line, name) ==
    /\ KeyOf(line) = Some(name)
    /\ ValueOf(line) # <<>>
    /\ Head(ValueOf(line)) = "{"
    /\ \E i \in 1..Len(line) : SubSeq(line, i, i + 4) = <<"version", " ", "=", " ", Quote>>

\* positions of the quotes around the version a declaration line holds
VersionOpen(line) ==
    IF Head(ValueOf(line)) = Quote THEN FirstIndex(line, Quote)
    ELSE 4 + (CHOOSE i \in 1..Len(line) :
                 SubSeq(line, i, i + 4) = <<"version", " ", "=", " ", Quote>>)
VersionClose(line) == NextQuote(line, VersionOpen(line) + 1)

\* the line with new between those quotes and nothing else changed
WithVersion(line, new) ==
    SubSeq(line, 1, VersionOpen(line)) \o new \o SubSeq(line, VersionClose(line), Len(line))

\* the last call was update_dependency
Updated == lastCall.op = "update_dependency"

\* the text differs from before in line k alone, which holds the new version
OnlyLineChanged(k) ==
    /\ Len(original_content) = Len(lastCall.before)
    /\ original_content[k] = WithVersion(lastCall.before[k], lastCall.version)
    /\ \A j \in 1..Len(lastCall.before) : j # k => original_content[j] = lastCall.before[j]

\* C14: for a dependency declared in simple form (name = "old"),
\* update_dependency(name, new) yields text that holds name = "new" and is
\* line for line the original except for that declaration line, on which only
\* the characters between the quotes change; declarations of other
\* dependencies (also of names that extend the updated name), comments and
\* blank lines are unchanged.
C14_SimpleFormUpdate ==
    Updated =>
      \A k \in 1..Len(lastCall.before) :
         (SectionOf(lastCall.before, k) = "dependencies"
              /\ IsSimpleDecl(lastCall.before[k], lastCall.name)) =>
           (lastCall.result.ok /\ OnlyLineChanged(k))

\* C15: for a dependency declared on one line as an inline table with a
\* version key holding a quoted string, wherever that key stands among the
\* keys of the table, update_dependency succeeds and replaces only the quoted
\* version value; the rest of that line and all other lines are unchanged.
C15_TableFormUpdate ==
    Updated =>
      \A k \in 1..Len(lastCall.before) :
         (SectionOf(lastCall.before, k) = "dependencies"
              /\ IsTableDecl(lastCall.before[k], lastCall.name)) =>
           (lastCall.result.ok /\ OnlyLineChanged(k))


-----------------------------------------------------------------------------
(* Claims about a batch update (checked under SpecCmd) *)

\* update_command applied its updates and saved the text
UpdateSaved ==
    /\ cmd = "update" /\ pc = "done" /\ exitCode = Some(0)
    /\ \E i \in 1..Len(effectLog) : effectLog[i] = Effect("write", ManifestPath)

\* the dependencies the run was to update with --all: those with an update
Updatable ==
    SelectSeq(Unwrap(checked), LAMBDA d : has_update(d.current_version, d.latest_version))
UpdatableNames == {Updatable[i].name : i \in 1..Len(Updatable)}

\* what the run reported for each of them
UpdatedNames == {n \in UpdatableNames : Printed(<<"Updated ", n>>)}
FailureLines == {i \in 1..Len(errLines) : Head(errLines[i]) = "Failed to update "}
FailedNames == {errLines[i][2] : i \in FailureLines}

\* the version a dependency was to be set to
LatestOf(n) ==
    VersionToString(Unwrap((CHOOSE d \in SeqRange(Updatable) : d.name = n).latest_version))

\* C16: when neither pattern finds the dependency, update_dependency returns
\* a "could not find dependency" error and leaves the text in memory as it
\* was; in a batch the failure is reported for that dependency only, the
\* others are still processed, and the text that is saved holds every update
\* that succeeded, before or after the failing one, and nothing else.
C16_FailureSkipsOneItem ==
    UpdateSaved =>
      LET saved == Unwrap(fsManifest)
          original == Unwrap(fsBackup)
      IN  /\ \A i \in FailureLines :
                errLines[i] = <<"Failed to update ", errLines[i][2],
                                "Could not find dependency ", errLines[i][2],
                                " in Cargo.toml">>
          /\ UpdatedNames \cap FailedNames = {}
          /\ flags.all => UpdatedNames \cup FailedNames = UpdatableNames
          /\ [saved EXCEPT !.edits = <<>>] = original
          /\ Len(saved.edits) = Cardinality(UpdatedNames)
          /\ \A n \in UpdatedNames :
                \E i \in 1..Len(saved.edits) :
                   saved.edits[i] = [op |-> "set_version", name |-> n, version |-> LatestOf(n)]

C16_Witness ==
    /\ UpdateSaved
    /\ flags.all
    /\ Len(Updatable) = 2
    /\ Updatable[1].name \in FailedNames
    /\ Updatable[2].name \in UpdatedNames
    /\ Len(Unwrap(fsManifest).edits) = 1


-----------------------------------------------------------------------------
(* Claims about save (checked under SpecUpdater) *)

\* the last call was save
SaveCalled == lastCall.op = "save"

\* save tried to write the manifest
WriteTried ==
    \E i \in 1..Len(lastCall.effects) : lastCall.effects[i] = Effect("write", ManifestPath)

\* C17: save always copies the manifest on disk to the backup path before it
\* writes the new text; if the copy fails it returns an error without
\* writing, and the manifest on disk is what it was before the call.  The
\* manifest is never written without a backup copy completed earlier in the
\* same save.
C17_BackupBeforeWrite ==
    SaveCalled =>
      /\ lastCall.effects # <<>>
      /\ lastCall.effects[1] = Effect("copy", BackupPath)
      /\ WriteTried => fsBackup = lastCall.file_before
      /\ fsManifest # lastCall.file_before => WriteTried
      /\ lastCall.result = Err(<<"Failed to create backup">>) =>
            (~WriteTried /\ fsManifest = lastCall.file_before)
      /\ (~lastCall.result.ok /\ ~WriteTried) =>
            lastCall.result = Err(<<"Failed to create backup">>)

C17_Witness ==
    /\ SaveCalled
    /\ lastCall.result = Err(<<"Failed to create backup">>)
    /\ fsManifest # Some(TextFile(original_content))
    /\ fsManifest = lastCall.file_before

\* C18: after every successful save, whether or not a backup file existed
\* and also for a second save on the same manifest, the backup file holds
\* what the manifest held on disk just before that save, and the manifest on
\* disk holds the text the updater has in memory.
C18_BackupIsPreSaveContent ==
    (SaveCalled /\ lastCall.result.ok) =>
      /\ fsBackup = lastCall.file_before
      /\ fsManifest = Some(TextFile(original_content))

\* a second save that changes the file: the backup it finds was made by an
\* earlier save of this updater
C18_Witness ==
    /\ SaveCalled
    /\ lastCall.result.ok
    /\ lastCall.backup_before # None
    /\ lastCall.backup_before # Some(TextFile(OlderText))
    /\ lastCall.backup_before # lastCall.file_before
    /\ lastCall.file_before # fsManifest
    /\ fsBackup = lastCall.file_before

\* C19: at every point, also when the write fails part-way, the manifest on
\* disk holds either the complete original content or the complete updated
\* content; it is never empty, truncated or partially written.
C19_NeverPartial ==
    SaveCalled =>
      \/ fsManifest = lastCall.file_before
      \/ fsManifest = Some(TextFile(lastCall.content))


-----------------------------------------------------------------------------
(* Claims about when update and clean write (checked under SpecCmd) *)

\* the run copied to the backup path or wrote the manifest, or one of the two
\* files is not what it was when the run started
Wrote ==
    \/ fsManifest # fsStart.file
    \/ fsBackup # fsStart.backup
    \/ \E i \in 1..Len(effectLog) :
          effectLog[i] \in {Effect("copy", BackupPath), Effect("write", ManifestPath)}

\* the confirmation prompt was shown and accepted
Confirmed ==
    /\ \E i \in 1..Len(effectLog) : effectLog[i] = Effect("prompt", "confirm")
    /\ answered.confirm = Some(Ok(TRUE))

\* the user approved the change
Approved == Confirmed \/ (cmd = "update" /\ flags.all)

\* at least one dependency is selected: for update the updatable ones with
\* --all and else those ticked in the selection prompt, for clean the
\* declared ones the scan did not find used
SelectedSome ==
    IF cmd = "update"
    THEN /\ checked # None
         /\ IF flags.all THEN Updatable # <<>>
            ELSE /\ answered.select # None
                 /\ Unwrap(answered.select).ok
                 /\ Unwrap(answered.select).value \cap (1..Len(Updatable)) # {}
    ELSE /\ loadedManifest # None
         /\ answered.used # None
         /\ DeclaredNames(Unwrap(loadedManifest)) \ Unwrap(answered.used) # {}

\* C20: in the update and clean workflows the manifest and its backup are
\* written only when dry-run is off, at least one dependency is selected and
\* the user approved (accepted the confirmation prompt, or passed --all for
\* update).  With --dry-run, when the user declines, or when nothing is
\* selected or updatable, the run ends with the manifest as it was and no
\* backup file created or overwritten.
C20_WritesOnlyWhenApproved ==
    cmd \in {"update", "clean"} =>
      (Wrote => (~flags.dry_run /\ SelectedSome /\ Approved))

\* a run of clean that ends because the user declined, with the backup of an
\* earlier run still in place
C20_Witness ==
    /\ cmd = "clean" /\ pc = "done"
    /\ ~flags.dry_run
    /\ SelectedSome
    /\ answered.confirm = Some(Ok(FALSE))
    /\ Printed(<<"No changes made.">>)
    /\ fsStart.backup = Some(OlderFile)
    /\ ~Wrote

----------------------------------------------------------------------------
(* Claims about the usage analyzer (checked under SpecScan) *)

\* the scan has run: what it was given and what it returned
Scanned == scanResult # None
UsedSet == Unwrap(scanResult).used
UnusedList == Unwrap(scanResult).unused

\* none of the three spellings of the name is in the used-set
NoSpellingUsed(name) ==
    /\ name \notin UsedSet
    /\ Replace(name, "-", "_") \notin UsedSet
    /\ Replace(name, "_", "-") \notin UsedSet

\* C21: find_unused_dependencies reports a declared dependency as unused
\* exactly when none of its original name, its name with hyphens turned into
\* underscores, and its name with underscores turned into hyphens is in the
\* used-set; the result holds only declared names, each at most once, and a
\* project that imports only serde and tokio and declares serde, tokio and
\* left-pad gets exactly [left-pad].
C21_UnusedIffNoSpellingUsed ==
    Scanned =>
      /\ \A name \in SeqRange(scanInput.names) :
            (name \in SeqRange(UnusedList)) <=> NoSpellingUsed(name)
      /\ SeqRange(UnusedList) \subseteq SeqRange(scanInput.names)
      /\ \A i, j \in 1..Len(UnusedList) : UnusedList[i] = UnusedList[j] => i = j
      /\ (/\ scanInput.names = <<Serde, Tokio, LeftPad>>
          /\ scanInput.files = <<SourceFile("src", "rs", Some(UseItem(Serde) \o UseCrate(Tokio)))>>)
            => UnusedList = <<LeftPad>>

\* serde and tokio are imported, left-pad is declared with them and is the
\* one name reported
C21_Witness ==
    /\ Scanned
    /\ scanInput.names = <<Serde, Tokio, LeftPad>>
    /\ scanInput.files = <<SourceFile("src", "rs", Some(UseItem(Serde) \o UseCrate(Tokio)))>>
    /\ UnusedList = <<LeftPad>>


\* the tokens from the start of its line up to position k are blanks and pub
RECURSIVE LeadOnly(_, _)
LeadOnly(content, k) ==
    IF k = 1 \/ content[k - 1] = LineEnd THEN TRUE
    ELSE content[k - 1] \in {" ", "pub"} /\ LeadOnly(content, k - 1)

\* the leading identifiers of the import statements of a text: use name...,
\* at the start of a line or indented, with or without pub
ImportedIn(content) ==
    {IdentAt(content, Words(content, i, <<"use">>)) :
        i \in {k \in 1..Len(content) :
                 /\ content[k] = "use"
                 /\ LeadOnly(content, k)
                 /\ Words(content, k, <<"use">>) # 0
                 /\ IdentAt(content, Words(content, k, <<"use">>)) # <<>>}}

\* the leading identifiers of the import statements of the scanned files
Imported ==
    UNION {ImportedIn(Unwrap(f.content)) :
             f \in {g \in SeqRange(find_rust_files(scanInput.files)) : g.content # None}}

\* C23: the leading identifier of every import statement of a scanned file is
\* in the used-set in both separator spellings, whatever the form of the
\* statement (at the start of a line or indented, use name::item;, use name;,
\* use name as alias;, pub use name::item;), so a declared dependency that a
\* use statement imports is never reported unused.
C23_ImportsAreUsed ==
    Scanned =>
      /\ \A n \in Imported : n \in UsedSet /\ Replace(n, "_", "-") \in UsedSet
      /\ \A name \in SeqRange(scanInput.names) :
            Replace(name, "-", "_") \in Imported => name \notin SeqRange(UnusedList)

----------------------------------------------------------------------------
(* Claims about the lines of a duplicates listing (checked under SpecConflicts) *)

\* the line begins with tree-drawing characters
HasTreePrefix(rawLine) == rawLine # <<>> /\ Head(rawLine) \in TreeChars

\* C22: a line of the duplicates listing that has tree-drawing characters and
\* blanks in front of the package name is parsed, once those are stripped, as
\* that package and version, exactly as the bare line would be.
C22_TreePrefixedLineParsed ==
    ReportFromListing =>
      \A i \in 1..Len(toolRun.stdout) :
         (HasTreePrefix(toolRun.stdout[i]) /\ ListedEntry(toolRun.stdout[i]) # None)
            => LineEntry(toolRun.stdout[i]) = ListedEntry(toolRun.stdout[i])

\* C29: every Conflict that parse_duplicates returns has a non-empty
\* package_name that is the name of some line of the listing, and each of its
\* versions is the version of a line for that package; a tree-prefixed line
\* never yields an empty name or a piece of the name as a version.
C29_ConflictNamesAreListed ==
    ReportFromListing =>
      \A i \in 1..Len(ReportedConflicts) :
         LET c == ReportedConflicts[i]
         IN  /\ c.package_name # <<>>
             /\ c.package_name \in ListedNames(toolRun.stdout)
             /\ SeqRange(c.versions) \subseteq ListedVersions(toolRun.stdout, c.package_name)

----------------------------------------------------------------------------
(* Claims about two-character comparison operators (checked under SpecParse) *)

\* C24: parse_version_req(">=1.0.5") returns the version 1.0.5, and likewise
\* ">=" or "<=" in front of any valid version string V returns V.
C24_ComparisonOperatorStripped ==
    (/\ pc = "parsed"
     /\ Len(req) >= 2
     /\ req[1] \in {">", "<"}
     /\ req[2] = "="
     /\ SubSeq(req, 3, Len(req)) \in ValidCores)
       => Unwrap(parsed) = Some(CoreVersion(SubSeq(req, 3, Len(req))))

----------------------------------------------------------------------------
(* Claims about what the update run reports (checked under SpecCmd) *)

\* a run of update in which update_dependency failed for every dependency it
\* was called on
EveryUpdateFailed ==
    /\ cmd = "update" /\ pc = "done"
    /\ checked # None
    /\ FailureLines # {}
    /\ UpdatedNames = {}

\* C25: if update_dependency fails for every selected dependency, the run
\* does not print that Cargo.toml was updated successfully: that message is
\* printed only when at least one version string was rewritten.
C25_NoSuccessWhenAllFailed ==
    EveryUpdateFailed => ~Printed(<<"Cargo.toml updated successfully!">>)

----------------------------------------------------------------------------
(* Claims about the comparison helpers (checked under SpecVersion) *)

\* update_type was asked about a latest version greater than the current one
NewerClassified ==
    /\ utype # None
    /\ latest_version # None
    /\ ~VersionLe(Unwrap(latest_version), current_version)

\* C27: for every pair of versions with latest > current, pre-releases
\* included, update_type returns Major iff is_major_update, Minor iff
\* is_minor_update and Patch iff is_patch_update, so exactly one of the three
\* helpers holds whenever there is an update.
C27_UpdateTypeAgreesWithHelpers ==
    NewerClassified =>
      LET l == Unwrap(latest_version)
      IN  /\ (Unwrap(utype) = "Major") <=> is_major_update(current_version, l)
          /\ (Unwrap(utype) = "Minor") <=> is_minor_update(current_version, l)
          /\ (Unwrap(utype) = "Patch") <=> is_patch_update(current_version, l)
          /\ Cardinality({h \in {"major", "minor", "patch"} :
                 \/ h = "major" /\ is_major_update(current_version, l)
                 \/ h = "minor" /\ is_minor_update(current_version, l)
                 \/ h = "patch" /\ is_patch_update(current_version, l)}) = 1

----------------------------------------------------------------------------
(* Claims about the section update_dependency edits (checked under SpecEdit) *)

\* line j of the text assigns the name in a table other than [dependencies]
\* that comes before the declaration of the name in [dependencies], line k
EarlierEntry(text, j, k, name) ==
    /\ j < k
    /\ SectionOf(text, j) # "dependencies"
    /\ KeyOf(text[j]) = Some(name)
    /\ SectionOf(text, k) = "dependencies"
    /\ (IsSimpleDecl(text[k], name) \/ IsTableDecl(text[k], name))

\* C28: update_dependency rewrites only a declaration of the direct
\* [dependencies] section: when the same name is also assigned in a section
\* that comes earlier in the file, that line is left unchanged and the
\* [dependencies] entry is the one updated.
C28_OnlyDirectSectionEdited ==
    Updated =>
      \A j \in 1..Len(lastCall.before), k \in 1..Len(lastCall.before) :
         EarlierEntry(lastCall.before, j, k, lastCall.name) =>
           /\ original_content[j] = lastCall.before[j]
           /\ original_content[k] = WithVersion(lastCall.before[k], lastCall.version)

----------------------------------------------------------------------------
(* Claims about advisories (checked under SpecHealth) *)

\* the version satisfies the bound: operator and version
Satisfies(version, op, bound) ==
    CASE op = <<"<">> -> VersionCmp(version, bound) < 0
      [] op = <<"<", "=">> -> VersionCmp(version, bound) <= 0
      [] op = <<">", "=">> -> VersionCmp(version, bound) >= 0
      [] op = <<">">> -> VersionCmp(version, bound) > 0

\* the clause is a bound: one of the four comparisons, a blank, a version
IsBound(c) ==
    /\ c.op \in {<<"<">>, <<"<", "=">>, <<">", "=">>, <<">">>}
    /\ c.spaced
    /\ ParseVersion(c.bound) # None

\* the ranges of the registered advisories, by crate
RegisteredRanges ==
    [name \in {"hyper", "regex", "tokio", "chrono"} |->
       CASE name = "hyper" -> <<[op |-> <<"<">>, bound |-> V01410]>>
         [] name = "regex" -> <<[op |-> <<"<">>, bound |-> VersionNew(1, 5, 5)]>>
         [] name = "tokio" -> <<[op |-> <<">", "=">>, bound |-> V180],
                                [op |-> <<"<">>, bound |-> V1185]>>
         [] name = "chrono" -> <<[op |-> <<"<">>, bound |-> VersionNew(0, 4, 20)]>>]

\* the current version of the dependency is in the range of the advisory
\* registered under its name
InRegisteredRange(dep) ==
    /\ dep.name \in DOMAIN RegisteredRanges
    /\ \A i \in 1..Len(RegisteredRanges[dep.name]) :
          Satisfies(dep.current_version, RegisteredRanges[dep.name][i].op,
                    RegisteredRanges[dep.name][i].bound)

----------------------------------------------------------------------------
(* Claims about the no-dependencies message (checked under SpecCmd) *)

\* C30: check and health print "No dependencies found in Cargo.toml" only
\* when the manifest declares no direct dependency; a manifest that declares
\* at least one (be they all git or path dependencies, without a version, or
\* with a version that cannot be parsed) is never reported as having none.
C30_NoDependenciesOnlyWhenNoneDeclared ==
    (cmd \in {"check", "health"} /\ Printed(<<"No dependencies found in Cargo.toml">>)) =>
      /\ loadedManifest # None
      /\ DeclaredNames(Unwrap(loadedManifest)) = {}

=============================================================================
